---- MODULE Spec2Model ----
(***************************************************************************)
(* A model of the domain-finder service (DomainService and the tool        *)
(* handlers built on it): keyword extraction, candidate generation,        *)
(* scoring, batched availability checking and deep TLD exploration.        *)
(*                                                                         *)
(* Strings are sequences of one-character strings, so that the string      *)
(* operations of the source (split, slice, includes, regular expressions)  *)
(* are computed rather than assumed.  Scores are integers counting         *)
(* quarters (3.0 is 12), so that every term of the scorer and its final    *)
(* rounding to the nearest 0.5 is exact.                                   *)
(***************************************************************************)
EXTENDS Integers, Sequences, FiniteSets, TLC

(***************************************************************************)
(* Characters and the string primitives the source uses                    *)
(***************************************************************************)
LowerSeq ==
  <<"a","b","c","d","e","f","g","h","i","j","k","l","m",
    "n","o","p","q","r","s","t","u","v","w","x","y","z">>

UpperSeq ==
  <<"A","B","C","D","E","F","G","H","I","J","K","L","M",
    "N","O","P","Q","R","S","T","U","V","W","X","Y","Z">>

Lower == {LowerSeq[i] : i \in 1..26}

Upper == {UpperSeq[i] : i \in 1..26}

Digit == {"0","1","2","3","4","5","6","7","8","9"}

AlphaNum == Lower \cup Upper \cup Digit

Vowel == {"a","e","i","o","u"}

WhiteSpace == {" ", "\t", "\n"}

Min(a, b) == IF a <= b THEN a ELSE b

Max(a, b) == IF a >= b THEN a ELSE b

\* Math.ceil(a / b) for a >= 0 and b > 0
CeilDiv(a, b) == (a + b - 1) \div b

\* String.prototype.toLowerCase, one character
lowerChar(c) ==
  IF c \in Upper THEN LowerSeq[CHOOSE i \in 1..26 : UpperSeq[i] = c] ELSE c

\* String.prototype.toLowerCase
toLowerCase(str) == [i \in 1..Len(str) |-> lowerChar(str[i])]

\* Array.prototype.slice / String.prototype.slice (start, end): 0-based,
\* end exclusive, a negative index counts from the end
slice(arr, start, end) ==
  LET n == Len(arr)
      rel(k) == IF k < 0 THEN Max(n + k, 0) ELSE Min(k, n)
      s == rel(start)
      e == rel(end)
  IN IF e <= s THEN <<>> ELSE SubSeq(arr, s + 1, e)

\* String.prototype.includes
includes(str, sub) ==
  \E i \in 0..(Len(str) - Len(sub)) : SubSeq(str, i + 1, i + Len(sub)) = sub

\* String.prototype.startsWith
startsWith(str, sub) ==
  Len(sub) <= Len(str) /\ SubSeq(str, 1, Len(sub)) = sub

\* String.prototype.endsWith
endsWith(str, sub) ==
  Len(sub) <= Len(str) /\ SubSeq(str, Len(str) - Len(sub) + 1, Len(str)) = sub

\* String.prototype.split on a one-character separator
RECURSIVE split(_, _)
split(str, sep) ==
  IF \A i \in 1..Len(str) : str[i] # sep
  THEN <<str>>
  ELSE LET i == CHOOSE k \in 1..Len(str) :
                  str[k] = sep /\ \A j \in 1..(k - 1) : str[j] # sep
       IN <<SubSeq(str, 1, i - 1)>> \o split(SubSeq(str, i + 1, Len(str)), sep)

\* Array.prototype.join on a one-character separator
RECURSIVE join(_, _)
join(parts, sep) ==
  IF Len(parts) = 0 THEN <<>>
  ELSE IF Len(parts) = 1 THEN parts[1]
  ELSE parts[1] \o <<sep>> \o join(Tail(parts), sep)

\* Array.prototype.pop on the result of split: the last part
lastPart(parts) == parts[Len(parts)]

\* The elements of a sequence
Range(seq) == {seq[i] : i \in 1..Len(seq)}

\* Array.prototype.filter with the element's index: keeps arr[i] iff keep(i)
\* (the index range is halved instead of walked, which keeps the evaluation
\* shallow; the elements are visited in order all the same)
filterIdx(arr, keep(_)) ==
  LET RECURSIVE between(_, _)
      between(lo, hi) ==
        IF lo > hi THEN <<>>
        ELSE IF lo = hi THEN (IF keep(lo) THEN <<arr[lo]>> ELSE <<>>)
        ELSE between(lo, (lo + hi) \div 2) \o between((lo + hi) \div 2 + 1, hi)
  IN between(1, Len(arr))

(***************************************************************************)
(* Domain-syntax validation                                                *)
(***************************************************************************)
\* /^[a-zA-Z0-9][a-zA-Z0-9-]{0,61}[a-zA-Z0-9]\.[a-zA-Z0-9]{2,}$/.test(domain)
domainRegexTest(domain) ==
  LET parts == split(domain, ".")
  IN /\ Len(parts) = 2
     /\ LET base == parts[1]
            last == parts[2]
        IN /\ Len(base) >= 2
           /\ Len(base) <= 63
           /\ base[1] \in AlphaNum
           /\ base[Len(base)] \in AlphaNum
           /\ \A i \in 2..(Len(base) - 1) : base[i] \in AlphaNum \cup {"-"}
           /\ Len(last) >= 2
           /\ \A i \in 1..Len(last) : last[i] \in AlphaNum

\* A variant of isValidDomain that relies on the regular expression alone
isValidDomainByRegex(domain) == domainRegexTest(domain)

isValidDomain(domain) ==
  LET parts == split(domain, ".")
  IN /\ domainRegexTest(domain)
     /\ Len(parts) >= 2
     /\ Len(parts[1]) >= 2
     /\ Len(parts[1]) <= 63
     /\ ~includes(domain, <<"-","-">>)
     /\ ~startsWith(domain, <<"-">>)
     /\ ~endsWith(domain, <<"-">>)

(***************************************************************************)
(* Scoring                                                                 *)
(***************************************************************************)
\* Scores count quarters; Half(k) is the score k * 0.5
Half(k) == 2 * k

isPronounceableAndBrandable(word) ==
  LET vowels == Cardinality({i \in 1..Len(word) : lowerChar(word[i]) \in Vowel})
      consonants == Len(word) - vowels
  IN \* ratio = vowels / word.length; 0.2 <= ratio <= 0.6 (false for NaN)
     /\ Len(word) > 0
     /\ 5 * vowels >= Len(word)
     /\ 5 * vowels <= 3 * Len(word)
     /\ consonants > 0

\* A variant of strategyScore whose table holds the strategy of the
\* availability check of the standouts
strategyScoreOfRecheck(strategy) ==
  CASE strategy = "word-slicing" -> Half(3)
    [] strategy = "portmanteau" -> Half(2)
    [] strategy = "llm-creative" -> Half(2)
    [] strategy = "llm-brainstorm" -> Half(2)
    [] strategy = "creative-combination" -> Half(1)
    [] strategy = "vowel-removal" -> 0
    [] strategy = "direct-keyword" -> Half(1)
    [] strategy = "creative-prefix" -> Half(1)
    [] strategy = "number-substitution" -> 0 - Half(2)
    [] OTHER -> 0

\* strategyScores[strategy] || 0
strategyScore(strategy) ==
  CASE strategy = "word-slicing" -> Half(3)
    [] strategy = "portmanteau" -> Half(2)
    [] strategy = "llm-creative" -> Half(2)
    [] strategy = "creative-combination" -> Half(1)
    [] strategy = "vowel-removal" -> 0
    [] strategy = "direct-keyword" -> Half(1)
    [] strategy = "creative-prefix" -> Half(1)
    [] strategy = "number-substitution" -> 0 - Half(2)
    [] OTHER -> 0

\* A variant of hasExcessiveRepeat that counts the occurrences of a character
\* wherever they stand
hasFourOccurrences(base) ==
  \E i \in 1..Len(base) : Cardinality({j \in 1..Len(base) : base[j] = base[i]}) >= 4

\* /(.)\1{3,}/.test(base): some character four or more times in a row
hasExcessiveRepeat(base) ==
  \E i \in 1..(Len(base) - 3) :
    base[i + 1] = base[i] /\ base[i + 2] = base[i] /\ base[i + 3] = base[i]

\* A variant of lengthScore that takes two points off a base shorter than 3
\* or longer than 12 characters
lengthScoreTwoOff(n) ==
  IF n >= 4 /\ n <= 8 THEN Half(4)
  ELSE IF n >= 3 /\ n <= 12 THEN Half(2)
  ELSE 0 - Half(4)

\* Length scoring: what the length n of the base adds to the score
lengthScore(n) ==
  IF n >= 4 /\ n <= 8 THEN Half(4)
  ELSE IF n >= 3 /\ n <= 12 THEN Half(2)
  ELSE 0 - Half(2)

\* The penalty of a base of at most two characters
shortBasePenalty(n) == IF n <= 2 THEN Half(4) ELSE 0

\* The sum of the terms of calculateAdvancedScore before clamping
rawScore(domain, strategy, keywords) ==
  LET parts == split(domain, ".")
      base == parts[1]
      tld == join(Tail(parts), ".")
      dotTld == <<".">> \o tld
      n == Len(base)
      lengthTerm == lengthScore(n)
      tldTerm == IF dotTld \in {<<".","c","o","m">>} THEN Half(4)
                 ELSE IF dotTld \in {<<".","i","o">>, <<".","a","i">>} THEN Half(3)
                 ELSE IF dotTld \in {<<".","a","p","p">>, <<".","d","e","v">>,
                                     <<".","c","o">>} THEN Half(2)
                 ELSE IF dotTld \in {<<".","n","e","t">>, <<".","o","r","g">>}
                      THEN Half(1)
                 ELSE 0
      exactMatch == \E k \in 1..Len(keywords) :
                      toLowerCase(base) = toLowerCase(keywords[k])
      partialMatch == \E k \in 1..Len(keywords) :
                        /\ includes(toLowerCase(base), toLowerCase(keywords[k]))
                        /\ toLowerCase(base) # toLowerCase(keywords[k])
      relevanceTerm == IF exactMatch THEN Half(3)
                       ELSE IF partialMatch THEN Half(1)
                       ELSE 0 - Half(1)
      pronounceable == isPronounceableAndBrandable(base)
      pronounceTerm == IF pronounceable THEN Half(2) ELSE 0 - Half(2)
      hasDigit == \E i \in 1..n : base[i] \in Digit
      hasHyphen == \E i \in 1..n : base[i] = "-"
      noVowel == \A i \in 1..n : lowerChar(base[i]) \notin Vowel
      penalties == (IF hasDigit THEN Half(3) ELSE 0)
                   + (IF hasHyphen THEN Half(4) ELSE 0)
                   + shortBasePenalty(n)
                   + (IF n >= 15 THEN Half(2) ELSE 0)
                   + (IF hasExcessiveRepeat(base) THEN Half(2) ELSE 0)
                   + (IF noVowel THEN Half(3) ELSE 0)
      bonus == IF /\ n >= 4 /\ n <= 7
                  /\ pronounceable
                  /\ (exactMatch \/ partialMatch)
                  /\ dotTld \in {<<".","c","o","m">>, <<".","i","o">>, <<".","a","i">>}
                  /\ ~hasDigit /\ ~hasHyphen
               THEN Half(2) ELSE 0
  IN Half(6) + lengthTerm + strategyScore(strategy) + tldTerm + relevanceTerm
       + pronounceTerm - penalties + bonus

\* A variant of clampScore that leaves the score as it is
scoreNotClamped(score) == score

\* Math.max(1, Math.min(10, score))
clampScore(score) == Max(Half(2), Min(Half(20), score))

\* Math.round(finalScore * 2) / 2: Math.round rounds a tie upwards
roundToHalf(score) == Half((score + 1) \div 2)

calculateAdvancedScore(domain, strategy, keywords) ==
  roundToHalf(clampScore(rawScore(domain, strategy, keywords)))

(***************************************************************************)
(* Keyword extraction and the text-generation provider                     *)
(***************************************************************************)
\* String.prototype.split(/\s+/)
RECURSIVE splitWhitespace(_)
splitWhitespace(str) ==
  IF \A i \in 1..Len(str) : str[i] \notin WhiteSpace
  THEN <<str>>
  ELSE LET i == CHOOSE k \in 1..Len(str) :

                                  str[k] \in WhiteSpace /\ \A j \in 1..(k - 1) : str[j] \notin WhiteSpace
           rest == {k \in (i + 1)..Len(str) : str[k] \notin WhiteSpace}
           j == IF rest = {} THEN Len(str) + 1
                ELSE CHOOSE k \in rest : \A m \in rest : k <= m
       IN <<SubSeq(str, 1, i - 1)>> \o splitWhitespace(SubSeq(str, j, Len(str)))

stopWords ==
  << <<"t","h","e">>, <<"a","n","d">>, <<"f","o","r">>, <<"a","r","e">>,
     <<"b","u","t">>, <<"n","o","t">>, <<"y","o","u">>, <<"a","l","l">>,
     <<"c","a","n">>, <<"h","e","r">>, <<"w","a","s">>, <<"o","n","e">>,
     <<"o","u","r">>, <<"h","a","d">>, <<"h","a","v","e">>,
     <<"w","h","a","t">>, <<"w","e","r","e">> >>

\* A variant of extractKeywords that returns each keyword once
extractDistinctKeywords(description) ==
  LET lowered == toLowerCase(description)
      letters == SelectSeq(lowered, LAMBDA c : c \in Lower \cup WhiteSpace)
      words == SelectSeq(splitWhitespace(letters), LAMBDA w : Len(w) > 2)
      kept == SelectSeq(words, LAMBDA w : w \notin Range(stopWords))
  IN SelectSeq([i \in 1..Len(kept) |->
                  IF \E j \in 1..(i - 1) : kept[j] = kept[i] THEN <<>> ELSE kept[i]],
               LAMBDA w : Len(w) > 0)

extractKeywords(description) ==
  LET lowered == toLowerCase(description)
      letters == SelectSeq(lowered, LAMBDA c : c \in Lower \cup WhiteSpace)
      words == SelectSeq(splitWhitespace(letters), LAMBDA w : Len(w) > 2)
  IN SelectSeq(words, LAMBDA w : w \notin Range(stopWords))

\* String.prototype.trim
RECURSIVE trim(_)
trim(str) ==
  IF Len(str) = 0 THEN str
  ELSE IF str[1] \in WhiteSpace THEN trim(Tail(str))
  ELSE IF str[Len(str)] \in WhiteSpace THEN trim(SubSeq(str, 1, Len(str) - 1))
  ELSE str

\* Drops the leading whitespace of a string: the \s* of the two patterns below
RECURSIVE dropLeadingSpace(_)
dropLeadingSpace(str) ==
  IF Len(str) > 0 /\ str[1] \in WhiteSpace THEN dropLeadingSpace(Tail(str)) ELSE str

\* line.replace(/^\d+\.\s*/, '')
stripEnumeration(line) ==
  LET digits == {k \in 1..Len(line) : \A j \in 1..k : line[j] \in Digit}
      d == Cardinality(digits)
  IN IF d >= 1 /\ Len(line) > d /\ line[d + 1] = "."
     THEN dropLeadingSpace(SubSeq(line, d + 2, Len(line)))
     ELSE line

\* line.replace(/^[-*]\s*/, '') (the pattern also strips a leading bullet dot)
stripBullet(line) ==
  IF Len(line) > 0 /\ line[1] \in {"-", "*"}
  THEN dropLeadingSpace(Tail(line))
  ELSE line

\* Array.prototype.map
mapSeq(arr, f(_)) == [i \in 1..Len(arr) |-> f(arr[i])]

\* Array.prototype.flatMap: the concatenation of f over the elements, as the
\* nested for-loops of the source visit them
flatMap(arr, f(_)) ==
  LET RECURSIVE between(_, _)
      between(lo, hi) ==
        IF lo > hi THEN <<>>
        ELSE IF lo = hi THEN f(arr[lo])
        ELSE between(lo, (lo + hi) \div 2) \o between((lo + hi) \div 2 + 1, hi)
  IN between(1, Len(arr))

parseLLMResponse(content) ==
  LET lines == mapSeq(split(content, "\n"), trim)
      kept == SelectSeq(lines, LAMBDA line :
                /\ Len(line) > 0
                /\ ~includes(line, <<":">>)
                /\ ~startsWith(line, <<"-">>))
      stripped == mapSeq(mapSeq(kept, stripEnumeration), stripBullet)
  IN SelectSeq(stripped, isValidDomain)

\* An answer of the text-generation API: [ok |-> FALSE] when the request
\* fails, else the text it returned.  getLLMSuggestions parses the text, and
\* rethrows a failure as "LLM API Error"
getLLMSuggestions(answer) ==
  IF answer.ok
  THEN [threw |-> FALSE, value |-> parseLLMResponse(answer.content)]
  ELSE [threw |-> TRUE, value |-> <<>>]

\* "if (combinations.length < count) combinations.push(item)" over items
pushWhileBelow(acc, items, count) ==
  acc \o slice(items, 0, Max(count - Len(acc), 0))

\* The catch branch of llmBrainstormWithTlds
fallbackCombinations(keywords, tlds, count) ==
  pushWhileBelow(<<>>,
    flatMap(slice(keywords, 0, 3), LAMBDA keyword :
      mapSeq(slice(tlds, 0, count \div 3), LAMBDA tld :
        [domain |-> keyword \o tld, strategy |-> "fallback-keyword"])),
    count)

\* The try branch of llmBrainstormWithTlds
brainstormedCombinations(llmSuggestions, tlds, count) ==
  LET domains == flatMap(llmSuggestions, LAMBDA s : parseLLMResponse(s))
      usesOurTld(domain) ==
        LET domainTld == lastPart(split(domain, "."))
        IN Len(domainTld) > 0 /\ \E t \in 1..Len(tlds) : includes(tlds[t], domainTld)
  IN pushWhileBelow(<<>>,
       mapSeq(SelectSeq(domains, LAMBDA d : isValidDomain(d) /\ usesOurTld(d)),
              LAMBDA d : [domain |-> d, strategy |-> "llm-intelligent-tld"]),
       count)

\* A variant of llmBrainstormWithTlds without the catch block: a failed
\* request throws
llmBrainstormUncaught(keywords, tlds, count, answer) ==
  LET suggestions == getLLMSuggestions(answer)
  IN [threw |-> suggestions.threw,
      value |-> slice(brainstormedCombinations(suggestions.value, tlds, count),
                      0, count)]

\* The value is what the method returns; threw tells whether it threw instead
\* (it never does: the try block covers the request and its parsing)
llmBrainstormWithTlds(keywords, tlds, count, answer) ==
  LET suggestions == getLLMSuggestions(answer)
      combinations == IF suggestions.threw
                      THEN fallbackCombinations(keywords, tlds, count)
                      ELSE brainstormedCombinations(suggestions.value, tlds, count)
  IN [threw |-> FALSE, value |-> slice(combinations, 0, count)]

(***************************************************************************)
(* Shuffling                                                               *)
(***************************************************************************)
\* How finely Math.random() is resolved: it returns r / RandomResolution
RandomResolution == 12

\* The number of random sources a shuffle may draw from
NumSeeds == 2

\* The r of the Math.random() call at loop index i, from random source seed
randomAt(seed, i) == (seed * (5 * i + 1) + (seed \div 2) * i) % RandomResolution

\* One iteration of the loop of shuffleArray: the swap at index i
shuffleStep(shuffled, seed, i) ==
  LET j == (randomAt(seed, i) * (i + 1)) \div RandomResolution
  IN [shuffled EXCEPT ![i + 1] = shuffled[j + 1], ![j + 1] = shuffled[i + 1]]

\* The iterations i = hi, hi - 1, ..., lo of the loop of shuffleArray, in that
\* order.  The range is halved and the upper half is evaluated before the
\* lower one starts (the length test, which always holds, sees to that), so
\* that the evaluation stays shallow on a long array
RECURSIVE shuffleFrom(_, _, _, _)
shuffleFrom(shuffled, seed, hi, lo) ==
  IF hi < lo THEN shuffled
  ELSE IF hi = lo THEN shuffleStep(shuffled, seed, hi)
  ELSE LET mid == (hi + lo) \div 2
           upper == shuffleFrom(shuffled, seed, hi, mid + 1)
       IN IF Len(upper) = Len(shuffled)
          THEN shuffleFrom(upper, seed, mid, lo)
          ELSE upper

shuffleArray(array, seed) == shuffleFrom(array, seed, Len(array) - 1, 1)

(***************************************************************************)
(* The environment: the TLD catalog, the availability provider and the     *)
(* text-generation provider                                                *)
(***************************************************************************)
\* The catalog loadAllTlds falls back to when tlds.txt cannot be read
fallbackTlds ==
  << <<".","c","o","m">>, <<".","n","e","t">>, <<".","o","r","g">>,
     <<".","i","o">>, <<".","a","i">>, <<".","a","p","p">>, <<".","c","o">>,
     <<".","d","e","v">> >>

\* The catalogs loadAllTlds may return: the fallback, and two contents of
\* tlds.txt (three lines, one an internationalised TLD; eleven lines)
Catalogs ==
  { fallbackTlds,
    << <<".","a","i">>, <<".","i","o">>, <<".","x","n","-","-","p","1","a","i">> >>,
    fallbackTlds \o << <<".","t","e","c","h">>, <<".","p","i","z","z","a">>,
                       <<".","x","n","-","-","p","1","a","i">> >> }

ProviderNames == {"namecheap", "domainr"}

\* premiumPrice: undefined, or a number
Undefined == {}

\* What the availability API reports for a domain when it answers: a list of
\* at most one status, in the fields either API returns (summary and status
\* by the status-summary API, the flags and the price by the registrar API).
\* The registry is fixed: .io is free, .com is registered, .ai is free at a
\* premium, .app is registered and marketed at a premium, anything else is
\* unknown to it
apiStatus(domain) ==
  LET label == lastPart(split(domain, "."))
  IN CASE label = <<"i","o">> ->
            << [summary |-> <<"i","n","a","c","t","i","v","e">>,
                status |-> <<"u","n","d","e","l","e","g","a","t","e","d"," ",
                             "i","n","a","c","t","i","v","e">>,
                available |-> TRUE, isPremium |-> FALSE, premiumPrice |-> Undefined] >>
       [] label = <<"c","o","m">> ->
            << [summary |-> <<"a","c","t","i","v","e">>,
                status |-> <<"a","c","t","i","v","e">>,
                available |-> FALSE, isPremium |-> FALSE, premiumPrice |-> Undefined] >>
       [] label = <<"a","i">> ->
            << [summary |-> <<"i","n","a","c","t","i","v","e">>,
                status |-> <<"i","n","a","c","t","i","v","e"," ",
                             "p","r","e","m","i","u","m">>,
                available |-> TRUE, isPremium |-> TRUE, premiumPrice |-> {1200}] >>
       [] label = <<"a","p","p">> ->
            << [summary |-> <<"p","r","e","m","i","u","m">>,
                status |-> <<"m","a","r","k","e","t","e","d"," ",
                             "p","r","e","m","i","u","m">>,
                available |-> FALSE, isPremium |-> TRUE, premiumPrice |-> {900}] >>
       [] OTHER -> <<>>

\* NamecheapProvider.parseResponse: the flags of one DomainCheckResult, and
\* the status and summary derived from them
parseResponse(result) ==
  [available |-> result.available,
   isPremium |-> result.isPremium,
   premiumPrice |-> result.premiumPrice,
   status |-> IF result.available /\ result.isPremium
              THEN <<"p","r","e","m","i","u","m"," ",
                     "a","v","a","i","l","a","b","l","e">>
              ELSE IF result.available
              THEN <<"a","v","a","i","l","a","b","l","e">>
              ELSE <<"t","a","k","e","n">>,
   summary |-> IF result.available THEN <<"i","n","a","c","t","i","v","e">>
               ELSE <<"a","c","t","i","v","e">>]

\* checkDomainStatus of the provider in use, when the request succeeds
checkDomainStatusOf(name, domain) ==
  IF name = "namecheap"
  THEN [i \in 1..Len(apiStatus(domain)) |-> parseResponse(apiStatus(domain)[i])]
  ELSE apiStatus(domain)

\* The texts the text-generation API may return
llmContents ==
  << <<>>,
     <<"p","i","c","k","l","e",".","a","i","\n","1","."," ","f","a","c","t","o",
       "r","y",".","i","o","\n","*"," ","b","r","i","n","e",".","c","o","m","\n",
       "p","i","c","k","l","e",".","a","i","\n","I","d","e","a","s",":"," ","x",
       ".","c","o","m","\n","-"," ","d","a","s","h","e","d",".","n","e","t","\n",
       "a","b",".","c","o","m">> >>

\* The answers of one text-generation request: a failure, or a text
LlmAnswers ==
  {[ok |-> FALSE, content |-> <<>>]}
    \cup {[ok |-> TRUE, content |-> llmContents[c]] : c \in 1..Len(llmContents)}

(***************************************************************************)
(* The state of a DomainService and of the invocation in progress          *)
(***************************************************************************)
VARIABLES
  allTlds,            \* this.allTlds
  providerName,       \* this.providerName
  pc,                 \* where the invocation in progress stands
  caller,             \* the method that awaits checkDomainsInBatches
  extractedKeywords,  \* deepTldExploration: extractedKeywords
  shuffledTlds,       \* deepTldExploration: shuffledTlds
  batchSize,          \* deepTldExploration: the batchSize argument
  maxBatches,         \* deepTldExploration: the maxBatches argument
  checkAvailability,  \* deepTldExploration: the checkAvailability argument
  batch,              \* deepTldExploration: the loop variable
  totalBatches,       \* deepTldExploration: totalBatches
  standouts,          \* deepTldExploration: standouts, then topStandouts
  slices,             \* the batchTlds handed to llmBrainstormWithTlds so far
  available,          \* deepTldExploration: availableStandouts
  domainInfos,        \* checkDomainsInBatches: domainInfos
  checkKeywords,      \* checkDomainsInBatches: keywords
  batchStart,         \* checkDomainsInBatches: the loop variable i
  inflight,           \* the lookups of the current batch that have not settled
  settled,            \* the settled lookups of the current batch, by index
  results,            \* checkDomainsInBatches: results
  failedLookups,      \* the indices of domainInfos whose lookup threw
  selectedTlds,       \* suggestDomains: selectedTlds
  generatedDomains,   \* suggestDomains: generatedDomains
  maxSuggestions,     \* suggestDomains: the maxSuggestions argument
  searchResult,       \* suggestDomains: the lists of the SearchResult
  thrown,             \* whether an error escaped the invocation
  brainstormOutcome,  \* how the last request of llmBrainstormWithTlds ended
  scoredNow,          \* the calls of calculateAdvancedScore in the last step
  request,            \* the tool call the handler is serving, if any
  response,           \* what the handler returned to the host, if anything
  evaluated           \* a method evaluated on its own: its arguments and value

vars ==
  <<allTlds, providerName, evaluated, pc, caller, extractedKeywords, shuffledTlds, batchSize,
    maxBatches, checkAvailability, batch, totalBatches, standouts, slices,
    available, domainInfos, checkKeywords, batchStart, inflight, settled,
    results, failedLookups, selectedTlds, generatedDomains, maxSuggestions,
    searchResult, thrown, brainstormOutcome, scoredNow, request, response>>

deepVars ==
  <<extractedKeywords, shuffledTlds, batchSize, maxBatches, checkAvailability,
    batch, totalBatches, standouts, slices, available>>

checkVars ==
  <<domainInfos, checkKeywords, batchStart, inflight, settled, results,
    failedLookups>>

suggestVars == <<selectedTlds, generatedDomains, maxSuggestions, searchResult>>

\* A number is the ratio num / den of two integers, or it is NaN
NaN == [nan |-> TRUE, num |-> 0, den |-> 0]

emptySearchResult ==
  [available |-> <<>>, taken |-> <<>>, premium |-> <<>>, totalGenerated |-> 0,
   creativityScore |-> [nan |-> FALSE, num |-> 0, den |-> 1]]

\* No tool call is being served: the service is idle or was called directly
NoRequest == [name |-> "none"]

\* The handler has returned nothing yet
NoResponse == [status |-> "none", isError |-> FALSE, text |-> "none"]

\* The state after construction, when loadAllTlds returns one of the catalogs
InitOver(catalogs) ==
  /\ allTlds \in catalogs
  /\ providerName \in ProviderNames
  /\ pc = "idle"
  /\ caller = "none"
  /\ extractedKeywords = <<>>
  /\ shuffledTlds = <<>>
  /\ batchSize = 0
  /\ maxBatches = 0
  /\ checkAvailability = FALSE
  /\ batch = 0
  /\ totalBatches = 0
  /\ standouts = <<>>
  /\ slices = <<>>
  /\ available = <<>>
  /\ domainInfos = <<>>
  /\ checkKeywords = <<>>
  /\ batchStart = 0
  /\ inflight = {}
  /\ settled = <<>>
  /\ results = <<>>
  /\ failedLookups = {}
  /\ selectedTlds = <<>>
  /\ generatedDomains = <<>>
  /\ maxSuggestions = 0
  /\ searchResult = emptySearchResult
  /\ thrown = FALSE
  /\ brainstormOutcome = "none"
  /\ scoredNow = {}
  /\ request = NoRequest
  /\ response = NoResponse
  /\ evaluated = [method |-> "none"]

Init == InitOver(Catalogs)

\* One call of calculateAdvancedScore: its arguments and its value
scoreCall(domain, strategy, keywords) ==
  [domain |-> domain, strategy |-> strategy, keywords |-> keywords,
   score |-> calculateAdvancedScore(domain, strategy, keywords)]

\* Array.prototype.sort((a, b) => b.score - a.score): stable, descending
sortByScore(arr) ==
  LET before(m) == Cardinality({k \in 1..Len(arr) :
                      \/ arr[k].score > arr[m].score
                      \/ arr[k].score = arr[m].score /\ k < m})
  IN [position \in 1..Len(arr) |->
        arr[CHOOSE m \in 1..Len(arr) : before(m) = position - 1]]

(***************************************************************************)
(* checkDomainsInBatches                                                   *)
(***************************************************************************)
\* A variant of checkBatchSize that gives every provider the batch size of the
\* registrar
registrarBatchSize == IF providerName = "namecheap" THEN 20 ELSE 20

\* The batch size of the provider in use
checkBatchSize == IF providerName = "namecheap" THEN 20 ELSE 5

\* this.domainProvider.checkDomainStatus(domain), when the request succeeds
checkDomainStatus(domain) == checkDomainStatusOf(providerName, domain)

\* The record the try block of one lookup builds from the provider's answer
checkedRecord(domainInfo, keywords, status) ==
  LET found == Len(status) > 0
      viaNamecheap == providerName = "namecheap"
  IN [domain |-> domainInfo.domain,
      available |-> IF ~found THEN FALSE
                    ELSE IF viaNamecheap THEN status[1].available = TRUE
                    ELSE status[1].summary = <<"i","n","a","c","t","i","v","e">>,
      isPremium |-> IF ~found THEN FALSE
                    ELSE IF viaNamecheap THEN status[1].isPremium = TRUE
                    ELSE includes(status[1].status, <<"p","r","e","m","i","u","m">>),
      premiumPrice |-> IF found /\ viaNamecheap THEN status[1].premiumPrice
                       ELSE Undefined,
      tld |-> lastPart(split(domainInfo.domain, ".")),
      score |-> calculateAdvancedScore(domainInfo.domain, domainInfo.strategy, keywords),
      strategy |-> domainInfo.strategy]

\* A variant of failedRecord that reports the domain whose lookup threw as
\* available
failedRecordAvailable(domainInfo, keywords) ==
  [domain |-> domainInfo.domain,
   available |-> TRUE,
   isPremium |-> FALSE,
   premiumPrice |-> Undefined,
   tld |-> lastPart(split(domainInfo.domain, ".")),
   score |-> calculateAdvancedScore(domainInfo.domain, domainInfo.strategy, keywords),
   strategy |-> domainInfo.strategy]

\* The record the catch block of one lookup builds
failedRecord(domainInfo, keywords) ==
  [domain |-> domainInfo.domain,
   available |-> FALSE,
   isPremium |-> FALSE,
   premiumPrice |-> Undefined,
   tld |-> lastPart(split(domainInfo.domain, ".")),
   score |-> calculateAdvancedScore(domainInfo.domain, domainInfo.strategy, keywords),
   strategy |-> domainInfo.strategy]

\* A variant of lookupSettles without the catch block: the promise of a lookup
\* that throws is rejected
lookupRejects(domainInfo, keywords, fails) ==
  IF fails
  THEN [status |-> "rejected", value |-> failedRecord(domainInfo, keywords)]
  ELSE [status |-> "fulfilled",
        value |-> checkedRecord(domainInfo, keywords,
                                checkDomainStatus(domainInfo.domain))]

\* How the promise of one lookup settles: the async callback of batch.map
lookupSettles(domainInfo, keywords, fails) ==
  IF fails
  THEN [status |-> "fulfilled", value |-> failedRecord(domainInfo, keywords)]
  ELSE [status |-> "fulfilled",
        value |-> checkedRecord(domainInfo, keywords,
                                checkDomainStatus(domainInfo.domain))]

\* The indices (from 1) of the batch that starts after batchStart entries
batchIndices ==
  (batchStart + 1)..Min(batchStart + checkBatchSize, Len(domainInfos))

\* The loop head with entries left: the lookups of the next batch all start
StartBatch ==
  /\ pc = "checkLoop"
  /\ batchStart < Len(domainInfos)
  /\ inflight' = batchIndices
  /\ settled' = <<>>
  /\ pc' = "checkInFlight"
  /\ scoredNow' = {}
  /\ UNCHANGED <<allTlds, providerName, evaluated, request, response,
                 suggestVars, caller, deepVars, domainInfos,
                 checkKeywords, batchStart, results, failedLookups, thrown,
                 brainstormOutcome>>

\* One lookup in flight settles: the provider answered, or its request failed
LookupSettles ==
  /\ pc = "checkInFlight"
  /\ \E k \in inflight, fails \in BOOLEAN :
       /\ inflight' = inflight \ {k}
       /\ settled' = (k :> lookupSettles(domainInfos[k], checkKeywords, fails)) @@ settled
       /\ failedLookups' = IF fails THEN failedLookups \cup {k} ELSE failedLookups
       /\ scoredNow' = {scoreCall(domainInfos[k].domain, domainInfos[k].strategy,
                                  checkKeywords)}
  /\ UNCHANGED <<allTlds, providerName, evaluated, request, response,
                 suggestVars, pc, caller, deepVars, domainInfos,
                 checkKeywords, batchStart, results, thrown, brainstormOutcome>>

\* A variant of batchOrder that lists the outcomes last promise first
batchOrderReversed == [k \in 1..Len(domainInfos) |-> Len(domainInfos) + 1 - k]

\* The order of the outcomes Promise.allSettled resolves to: that of the
\* promises it was given, which is that of the entries of the batch
batchOrder == [k \in 1..Len(domainInfos) |-> k]

\* Promise.allSettled resolves: the fulfilled values are pushed in batch order,
\* and a delay follows when entries are left
CollectBatch ==
  /\ pc = "checkInFlight"
  /\ inflight = {}
  /\ LET fulfilled ==
           SelectSeq(batchOrder,
                     LAMBDA k : k \in batchIndices /\ settled[k].status = "fulfilled")
     IN results' = results \o mapSeq(fulfilled, LAMBDA k : settled[k].value)
  /\ pc' = IF batchStart + checkBatchSize < Len(domainInfos)
           THEN "checkDelay" ELSE "checkLoop"
  /\ batchStart' = batchStart + checkBatchSize
  /\ settled' = <<>>
  /\ scoredNow' = {}
  /\ UNCHANGED <<allTlds, providerName, evaluated, request, response,
                 suggestVars, caller, deepVars, domainInfos,
                 checkKeywords, inflight, failedLookups, thrown, brainstormOutcome>>

\* The delay between two batches elapses
CheckDelay ==
  /\ pc = "checkDelay"
  /\ pc' = "checkLoop"
  /\ UNCHANGED <<allTlds, providerName, evaluated, request, response,
                 suggestVars, caller, deepVars, checkVars,
                 thrown, brainstormOutcome,
                 scoredNow>>

\* checkMultipleDomains: every domain is checked under the strategy batch-check
\* and with no keywords
CheckMultipleDomains(domains) ==
  /\ pc = "idle"
  /\ domainInfos' = mapSeq(domains, LAMBDA d : [domain |-> d, strategy |-> "batch-check"])
  /\ checkKeywords' = <<>>
  /\ batchStart' = 0
  /\ results' = <<>>
  /\ failedLookups' = {}
  /\ caller' = "checkMultipleDomains"
  /\ pc' = "checkLoop"
  /\ UNCHANGED <<allTlds, providerName, evaluated, suggestVars, deepVars, inflight, settled,
                 thrown, brainstormOutcome,
                 scoredNow>>

\* checkMultipleDomains returns what checkDomainsInBatches returned
CheckMultipleDomainsReturns ==
  /\ pc = "checkLoop"
  /\ batchStart >= Len(domainInfos)
  /\ caller = "checkMultipleDomains"
  /\ pc' = "done"
  /\ UNCHANGED <<allTlds, providerName, evaluated, request, response,
                 suggestVars, caller, deepVars, checkVars,
                 thrown, brainstormOutcome,
                 scoredNow>>

(***************************************************************************)
(* deepTldExploration                                                      *)
(***************************************************************************)
\* A variant of actualBatchSize that takes the batchSize argument as it is
batchSizeAsRequested(totalTlds, batchSizeArg, maxBatchesArg) == batchSizeArg

\* Math.min(batchSize, Math.ceil(totalTlds / maxBatches))
actualBatchSize(totalTlds, batchSizeArg, maxBatchesArg) ==
  Min(batchSizeArg, CeilDiv(totalTlds, maxBatchesArg))

\* A variant of actualMaxBatches that takes the maxBatches argument as it is
maxBatchesAsRequested(totalTlds, batchSizeArg, maxBatchesArg) == maxBatchesArg

\* Math.ceil(totalTlds / actualBatchSize); the loop does not run on NaN
actualMaxBatches(totalTlds, batchSizeArg, maxBatchesArg) ==
  LET size == actualBatchSize(totalTlds, batchSizeArg, maxBatchesArg)
  IN IF size = 0 THEN 0 ELSE CeilDiv(totalTlds, size)

\* shuffledTlds.slice(startIndex, endIndex) of the batch the loop is at
batchTlds ==
  LET size == actualBatchSize(Len(shuffledTlds), batchSize, maxBatches)
      startIndex == batch * size
      endIndex == Min(startIndex + size, Len(shuffledTlds))
  IN slice(shuffledTlds, startIndex, endIndex)

\* The loop condition, and the break on an empty slice
moreBatches ==
  /\ batch < actualMaxBatches(Len(shuffledTlds), batchSize, maxBatches)
  /\ Len(batchTlds) > 0

\* The score 6, the least a standout has
standoutThreshold == Half(12)

\* A variant of highScoringBatch that keeps every combination scoring 6 or
\* more
highScoringUncut(batchCombinations, keywords) ==
  LET scoredBatch == mapSeq(batchCombinations, LAMBDA combo :
                       [domain |-> combo.domain,
                        score |-> calculateAdvancedScore(combo.domain, combo.strategy,
                                                         keywords)])
  IN sortByScore(SelectSeq(scoredBatch, LAMBDA combo : combo.score >= standoutThreshold))

\* The standouts one batch contributes: the combinations scoring 6 or more,
\* the best first, ten of them at most
highScoringBatch(batchCombinations, keywords) ==
  LET scoredBatch == mapSeq(batchCombinations, LAMBDA combo :
                       [domain |-> combo.domain,
                        score |-> calculateAdvancedScore(combo.domain, combo.strategy,
                                                         keywords)])
  IN slice(sortByScore(SelectSeq(scoredBatch,
                                 LAMBDA combo : combo.score >= standoutThreshold)),
           0, 10)

\* A variant of catalogAfterShuffle in which the shuffle swaps the entries of
\* this.allTlds itself
catalogShuffledInPlace(catalog, seed) == shuffleArray(catalog, seed)

\* this.allTlds after the shuffle of deepTldExploration: the method copies the
\* catalog and shuffleArray copies its argument, so no swap reaches it
catalogAfterShuffle(catalog, seed) == catalog

\* The entry of deepTldExploration, up to the loop
DeepTldExploration(businessDescription, keywords, batchSizeArg, maxBatchesArg, checkAvailabilityArg, seed) ==
  /\ pc = "idle"
  /\ extractedKeywords' = IF Len(keywords) > 0 THEN keywords
                          ELSE extractKeywords(businessDescription)
  /\ shuffledTlds' = shuffleArray(allTlds, seed)
  /\ batchSize' = batchSizeArg
  /\ maxBatches' = maxBatchesArg
  /\ checkAvailability' = checkAvailabilityArg
  /\ batch' = 0
  /\ totalBatches' = 0
  /\ standouts' = <<>>
  /\ slices' = <<>>
  /\ available' = <<>>
  /\ pc' = "deepLoop"
  /\ brainstormOutcome' = "none"
  /\ allTlds' = catalogAfterShuffle(allTlds, seed)
  /\ UNCHANGED <<providerName, evaluated, suggestVars, caller, checkVars, thrown,
                 scoredNow>>

\* One iteration of the loop: the brainstorming of one slice and its scoring
DeepBatch(answer) ==
  /\ pc = "deepLoop"
  /\ moreBatches
  /\ LET size == actualBatchSize(Len(shuffledTlds), batchSize, maxBatches)
         brainstorm ==
           llmBrainstormWithTlds(extractedKeywords, batchTlds, Min(size * 2, 300), answer)
         batchCombinations == brainstorm.value
     IN IF brainstorm.threw
        THEN /\ thrown' = TRUE
             /\ pc' = "done"
             /\ scoredNow' = {}
             /\ UNCHANGED <<standouts, batch>>
        ELSE /\ standouts' = standouts \o highScoringBatch(batchCombinations,
                                                           extractedKeywords)
             /\ scoredNow' = {scoreCall(batchCombinations[c].domain,
                                        batchCombinations[c].strategy,
                                        extractedKeywords) :
                                c \in 1..Len(batchCombinations)}
             /\ pc' = IF batch < maxBatches - 1 THEN "deepSleep" ELSE "deepLoop"
             /\ batch' = batch + 1
             /\ UNCHANGED thrown
  /\ slices' = Append(slices, batchTlds)
  /\ totalBatches' = totalBatches + 1
  /\ brainstormOutcome' = IF answer.ok THEN "answered" ELSE "failed"
  /\ UNCHANGED <<allTlds, providerName, evaluated, request, response,
                 suggestVars, caller, extractedKeywords,
                 shuffledTlds, batchSize, maxBatches, checkAvailability, available,
                 checkVars>>

\* The rate-limiting sleep between two text-generation calls elapses
DeepSleep ==
  /\ pc = "deepSleep"
  /\ pc' = "deepLoop"
  /\ UNCHANGED <<allTlds, providerName, evaluated, request, response,
                 suggestVars, caller, deepVars, checkVars,
                 thrown, brainstormOutcome,
                 scoredNow>>

\* After the loop: the 30 best standouts, and the availability check of them
\* when it was asked for
DeepRanks ==
  /\ pc = "deepLoop"
  /\ ~moreBatches
  /\ LET topStandouts == slice(sortByScore(standouts), 0, 30)
     IN /\ standouts' = topStandouts
        /\ IF checkAvailability /\ Len(topStandouts) > 0
           THEN /\ domainInfos' = mapSeq(topStandouts, LAMBDA standout :
                                    [domain |-> standout.domain,
                                     strategy |-> "llm-brainstorm"])
                /\ checkKeywords' = extractedKeywords
                /\ batchStart' = 0
                /\ results' = <<>>
                /\ failedLookups' = {}
                /\ caller' = "deepTldExploration"
                /\ pc' = "checkLoop"
           ELSE /\ pc' = "done"
                /\ UNCHANGED <<domainInfos, checkKeywords, batchStart, results,
                               failedLookups, caller>>
  /\ scoredNow' = {}
  /\ UNCHANGED <<allTlds, providerName, evaluated, request, response,
                 suggestVars, extractedKeywords, shuffledTlds,
                 batchSize,
                 maxBatches, checkAvailability, batch, totalBatches, slices,
                 available, inflight, settled, thrown, brainstormOutcome>>

\* A variant of availableOf that leaves out the premium domains
availableNotPremium(checkedResults) ==
  SelectSeq(checkedResults, LAMBDA r : r.available /\ ~r.isPremium)

\* checkedResults.filter(r => r.available)
availableOf(checkedResults) == SelectSeq(checkedResults, LAMBDA r : r.available)

\* deepTldExploration returns after its availability check: the available
\* list holds the checked standouts reported available
DeepReturns ==
  /\ pc = "checkLoop"
  /\ batchStart >= Len(domainInfos)
  /\ caller = "deepTldExploration"
  /\ available' = availableOf(results)
  /\ pc' = "done"
  /\ UNCHANGED <<allTlds, providerName, evaluated, request, response,
                 suggestVars, caller, extractedKeywords,
                 shuffledTlds,
                 batchSize, maxBatches, checkAvailability, batch, totalBatches,
                 standouts, slices, checkVars, thrown, brainstormOutcome, scoredNow>>

(***************************************************************************)
(* TLD selection                                                           *)
(***************************************************************************)

\* The names the constructor keeps in techTlds
techTldNames ==
  <<
    <<".","a","i">>, <<".","t","e","c","h">>, <<".","i","o">>,
    <<".","a","p","p">>, <<".","d","e","v">>,
    <<".","s","o","f","t","w","a","r","e">>,
    <<".","d","i","g","i","t","a","l">>, <<".","c","l","o","u","d">>,
    <<".","d","a","t","a">>, <<".","c","o","m","p","u","t","e","r">>,
    <<".","n","e","t","w","o","r","k">>, <<".","s","y","s","t","e","m","s">>,
    <<".","s","c","i","e","n","c","e">>
  >>

\* The names the constructor keeps in funTlds
funTldNames ==
  <<
    <<".","f","u","n">>, <<".","p","a","r","t","y">>,
    <<".","c","l","u","b">>, <<".","b","a","r">>, <<".","p","u","b">>,
    <<".","l","o","v","e">>, <<".","s","e","x","y">>, <<".","h","o","t">>,
    <<".","c","o","o","l">>, <<".","l","o","l">>, <<".","w","t","f">>,
    <<".","p","o","r","n">>, <<".","x","x","x">>,
    <<".","a","d","u","l","t">>, <<".","g","a","y">>,
    <<".","d","a","t","i","n","g">>, <<".","p","i","z","z","a">>,
    <<".","c","o","f","f","e","e">>, <<".","b","e","e","r">>,
    <<".","w","i","n","e">>, <<".","v","o","d","k","a">>,
    <<".","t","a","t","t","o","o">>, <<".","h","a","i","r">>,
    <<".","y","o","g","a">>
  >>

\* The three-character TLDs the constructor keeps out of countryTlds
genericTldNames ==
  <<
    <<".","c","o","m">>, <<".","n","e","t">>, <<".","o","r","g">>,
    <<".","e","d","u">>, <<".","g","o","v">>, <<".","m","i","l">>
  >>

creativeWords ==
  <<
    <<"s","p","a","r","k">>, <<"f","l","o","w">>, <<"s","y","n","c">>,
    <<"p","u","l","s","e">>, <<"w","a","v","e">>, <<"s","h","i","f","t">>,
    <<"l","e","a","p">>, <<"r","i","s","e">>, <<"b","e","a","m">>,
    <<"d","a","s","h">>, <<"z","o","o","m">>, <<"g","l","o","w">>,
    <<"b","u","z","z">>, <<"s","n","a","p">>, <<"f","l","u","x">>,
    <<"v","i","b","e">>, <<"e","d","g","e">>, <<"p","e","a","k">>,
    <<"c","o","r","e">>, <<"n","o","v","a">>, <<"z","e","n">>,
    <<"a","c","e">>, <<"p","r","o">>, <<"m","a","x">>,
    <<"u","l","t","r","a">>, <<"m","e","t","a">>, <<"n","e","x","t">>,
    <<"s","m","a","r","t">>, <<"s","w","i","f","t">>, <<"b","o","l","d">>
  >>

techTlds == SelectSeq(allTlds, LAMBDA tld : tld \in Range(techTldNames))

funTlds == SelectSeq(allTlds, LAMBDA tld : tld \in Range(funTldNames))

countryTlds ==
  SelectSeq(allTlds, LAMBDA tld :
    /\ Len(tld) = 3
    /\ tld \notin Range(techTlds)
    /\ tld \notin Range(genericTldNames))

\* The base list of each search mode; any other mode is the standard one
baseTldsForMode(mode) ==
  CASE mode = "competitive" ->
         techTlds \o funTlds \o
         <<
           <<".","c","o">>, <<".","x","y","z">>, <<".","s","p","a","c","e">>,
           <<".","s","i","t","e">>, <<".","o","n","l","i","n","e">>,
           <<".","w","o","r","l","d">>, <<".","t","o","d","a","y">>,
           <<".","l","i","f","e">>, <<".","w","o","r","k","s">>,
           <<".","s","t","u","d","i","o">>, <<".","a","g","e","n","c","y">>,
           <<".","s","o","l","u","t","i","o","n","s">>,
           <<".","d","i","g","i","t","a","l">>, <<".","n","i","n","j","a">>
         >>
    [] mode = "premium" ->
         <<
           <<".","c","o","m">>, <<".","n","e","t">>, <<".","o","r","g">>,
           <<".","i","o">>, <<".","a","i">>, <<".","a","p","p">>,
           <<".","c","o">>, <<".","b","i","z">>, <<".","i","n","f","o">>,
           <<".","p","r","o">>, <<".","n","a","m","e">>, <<".","m","e">>,
           <<".","t","v">>, <<".","c","c">>
         >>
    [] mode = "budget" ->
         <<
           <<".","x","y","z">>, <<".","s","i","t","e">>,
           <<".","o","n","l","i","n","e">>,
           <<".","w","e","b","s","i","t","e">>, <<".","s","p","a","c","e">>,
           <<".","f","u","n">>, <<".","l","i","v","e">>,
           <<".","s","t","o","r","e">>, <<".","s","h","o","p">>,
           <<".","b","l","o","g">>, <<".","n","e","w","s">>,
           <<".","c","l","i","c","k">>, <<".","l","i","n","k">>,
           <<".","e","m","a","i","l">>
         >>
    [] mode = "international" ->
         <<
           <<".","c","o","m">>, <<".","n","e","t">>, <<".","o","r","g">>,
           <<".","g","l","o","b","a","l">>, <<".","w","o","r","l","d">>,
           <<".","i","n","t","e","r","n","a","t","i","o","n","a","l">>
         >> \o slice(countryTlds, 0, 20)
    [] OTHER ->
         <<
           <<".","c","o","m">>, <<".","n","e","t">>, <<".","o","r","g">>,
           <<".","i","o">>, <<".","c","o">>, <<".","a","p","p">>,
           <<".","d","e","v">>, <<".","t","e","c","h">>, <<".","a","i">>,
           <<".","d","i","g","i","t","a","l">>,
           <<".","o","n","l","i","n","e">>, <<".","s","i","t","e">>,
           <<".","s","p","a","c","e">>, <<".","w","o","r","l","d">>
         >>

\* The industry tables of getIndustrySpecificTlds, in the order of its tests
industryTable ==
  <<
     [terms |->
        <<
          <<"t","e","c","h">>, <<"s","o","f","t","w","a","r","e">>,
          <<"a","i">>, <<"d","a","t","a">>, <<"d","i","g","i","t","a","l">>
        >>,
      tlds |->
        <<
          <<".","t","e","c","h">>, <<".","a","i">>,
          <<".","s","o","f","t","w","a","r","e">>,
          <<".","d","i","g","i","t","a","l">>, <<".","d","a","t","a">>,
          <<".","s","y","s","t","e","m","s">>
        >>],
     [terms |->
        <<
          <<"f","i","n","a","n","c","e">>, <<"b","a","n","k">>,
          <<"m","o","n","e","y">>, <<"i","n","v","e","s","t">>
        >>,
      tlds |->
        <<
          <<".","f","i","n","a","n","c","e">>, <<".","b","a","n","k">>,
          <<".","m","o","n","e","y">>, <<".","f","u","n","d">>,
          <<".","c","a","p","i","t","a","l">>
        >>],
     [terms |->
        <<
          <<"h","e","a","l","t","h">>, <<"m","e","d","i","c","a","l">>,
          <<"d","o","c","t","o","r">>, <<"c","a","r","e">>
        >>,
      tlds |->
        <<
          <<".","h","e","a","l","t","h">>, <<".","c","a","r","e">>,
          <<".","m","e","d","i","c","a","l">>,
          <<".","d","o","c","t","o","r">>, <<".","c","l","i","n","i","c">>
        >>],
     [terms |->
        <<
          <<"f","o","o","d">>, <<"r","e","s","t","a","u","r","a","n","t">>,
          <<"c","a","f","e">>, <<"k","i","t","c","h","e","n">>
        >>,
      tlds |->
        <<
          <<".","f","o","o","d">>,
          <<".","r","e","s","t","a","u","r","a","n","t">>,
          <<".","c","a","f","e">>, <<".","k","i","t","c","h","e","n">>,
          <<".","r","e","c","i","p","e","s">>
        >>],
     [terms |->
        <<
          <<"t","r","a","v","e","l">>, <<"v","a","c","a","t","i","o","n">>,
          <<"h","o","t","e","l">>
        >>,
      tlds |->
        <<
          <<".","t","r","a","v","e","l">>,
          <<".","v","a","c","a","t","i","o","n">>,
          <<".","h","o","t","e","l">>, <<".","f","l","i","g","h","t","s">>,
          <<".","t","o","u","r","s">>
        >>],
     [terms |->
        <<
          <<"e","d","u","c","a","t","i","o","n">>,
          <<"s","c","h","o","o","l">>, <<"l","e","a","r","n">>,
          <<"c","o","u","r","s","e">>
        >>,
      tlds |->
        <<
          <<".","e","d","u","c","a","t","i","o","n">>,
          <<".","s","c","h","o","o","l">>,
          <<".","u","n","i","v","e","r","s","i","t","y">>,
          <<".","a","c","a","d","e","m","y">>
        >>]
  >>

\* A variant of uniqueInOrder that keeps every occurrence
keepsEveryOccurrence(arr) == arr

\* [...new Set(arr)]: the first occurrence of each element, in order
uniqueInOrder(arr) ==
  filterIdx(arr, LAMBDA i : \A j \in 1..(i - 1) : arr[j] # arr[i])

getIndustrySpecificTlds(keywords) ==
  uniqueInOrder(
    flatMap(keywords, LAMBDA keyword :
      flatMap(industryTable, LAMBDA industry :
        IF \E t \in 1..Len(industry.terms) : includes(keyword, industry.terms[t])
        THEN industry.tlds ELSE <<>>)))

selectTldsForMode(mode, keywords) ==
  slice(uniqueInOrder(baseTldsForMode(mode) \o getIndustrySpecificTlds(keywords)), 0, 50)

(***************************************************************************)
(* generateCreativeDomains and suggestDomains                              *)
(***************************************************************************)
\* String.prototype.replace(/pattern/g, replacement) for a literal pattern
RECURSIVE replaceAll(_, _, _)
replaceAll(str, pattern, replacement) ==
  IF Len(str) < Len(pattern) THEN str
  ELSE IF SubSeq(str, 1, Len(pattern)) = pattern
  THEN replacement \o replaceAll(SubSeq(str, Len(pattern) + 1, Len(str)),
                                 pattern, replacement)
  ELSE <<str[1]>> \o replaceAll(Tail(str), pattern, replacement)

\* A variant of uniqueByDomain that keeps every entry
keepsRepeats(arr) == arr

\* arr.filter((d, index, arr) => arr.findIndex(x => x.domain === d.domain) === index)
uniqueByDomain(arr) ==
  filterIdx(arr, LAMBDA i : \A j \in 1..(i - 1) : arr[j].domain # arr[i].domain)

\* A variant of Strategy 2 that combines the keywords with every TLD
directKeywordOfAll(keywords, tlds) ==
  flatMap(slice(keywords, 0, 2), LAMBDA keyword :
    mapSeq(tlds, LAMBDA tld :
      [domain |-> keyword \o tld, strategy |-> "direct-keyword"]))

\* Strategy 2: keyword + TLD
directKeywordDomains(keywords, tlds) ==
  flatMap(slice(keywords, 0, 2), LAMBDA keyword :
    mapSeq(slice(tlds, 0, 5), LAMBDA tld :
      [domain |-> keyword \o tld, strategy |-> "direct-keyword"]))

\* Strategy 3: the TLD completes the keyword
wordSlicingDomains(keywords, tlds) ==
  flatMap(slice(keywords, 0, 2), LAMBDA keyword :
    flatMap(tlds, LAMBDA tld :
      LET tldPart == slice(tld, 1, Len(tld))
          sliced == slice(keyword, 0, 0 - Len(tldPart))
      IN IF endsWith(keyword, tldPart) /\ Len(sliced) >= 3
         THEN <<[domain |-> sliced \o tld, strategy |-> "word-slicing"]>>
         ELSE <<>>))

\* Strategy 3 (second): the first half of one keyword and the second of another
portmanteauDomains(keywords, tlds) ==
  flatMap([i \in 1..(Len(keywords) - 1) |-> i], LAMBDA i :
    flatMap([k \in 1..(Len(keywords) - i) |-> i + k], LAMBDA j :
      LET word1 == keywords[i]
          word2 == keywords[j]
          mid1 == CeilDiv(Len(word1), 2)
          mid2 == Len(word2) \div 2
          portmanteau == slice(word1, 0, mid1) \o slice(word2, mid2, Len(word2))
      IN mapSeq(slice(tlds, 0, 5), LAMBDA tld :
           [domain |-> portmanteau \o tld, strategy |-> "portmanteau"])))

\* Strategy 4: a creative word after and before the keyword
creativeWordDomains(keywords, tlds) ==
  flatMap(slice(keywords, 0, 2), LAMBDA keyword :
    flatMap(slice(creativeWords, 0, 10), LAMBDA creative :
      flatMap(slice(tlds, 0, 8), LAMBDA tld :
        << [domain |-> keyword \o creative \o tld, strategy |-> "creative-combination"],
           [domain |-> creative \o keyword \o tld, strategy |-> "creative-prefix"] >>)))

\* Strategy 5: the keyword without its vowels
vowelRemovalDomains(keywords, tlds) ==
  flatMap(keywords, LAMBDA keyword :
    LET shortened == SelectSeq(keyword, LAMBDA c : c \notin Vowel)
    IN IF Len(shortened) >= 3 /\ Len(shortened) <= 6
       THEN mapSeq(slice(tlds, 0, 10), LAMBDA tld :
              [domain |-> shortened \o tld, strategy |-> "vowel-removal"])
       ELSE <<>>)

\* Strategy 6: to -> 2, for -> 4, ate -> 8
numberSubstitutionDomains(keywords, tlds) ==
  flatMap(slice(keywords, 0, 2), LAMBDA keyword :
    LET withNumbers ==
          replaceAll(replaceAll(replaceAll(keyword, <<"t","o">>, <<"2">>),
                                <<"f","o","r">>, <<"4">>),
                     <<"a","t","e">>, <<"8">>)
    IN IF withNumbers # keyword
       THEN mapSeq(slice(tlds, 0, 5), LAMBDA tld :
              [domain |-> withNumbers \o tld, strategy |-> "number-substitution"])
       ELSE <<>>)

\* Strategy 7: in competitive mode a second request, whose failure is swallowed
llmCreativeDomains(mode, answer) ==
  LET llmSuggestions == getLLMSuggestions(answer)
  IN IF mode = "competitive" /\ ~llmSuggestions.threw
     THEN mapSeq(llmSuggestions.value, LAMBDA domain :
            [domain |-> domain, strategy |-> "llm-creative"])
     ELSE <<>>

\* A variant of generateCreativeDomains that loses the candidates of its
\* deterministic strategies and keeps those of the text-generation requests
generateFromLlmOnly(keywords, tlds, mode, count, brainstormAnswer, creativeAnswer, seed) ==
  LET llmDomains == llmBrainstormWithTlds(keywords, tlds, (count * 6) \div 10,
                                          brainstormAnswer)
      domains == llmDomains.value \o llmCreativeDomains(mode, creativeAnswer)
      validDomains == uniqueByDomain(SelectSeq(domains,
                                               LAMBDA d : isValidDomain(d.domain)))
  IN [threw |-> llmDomains.threw,
      value |-> slice(shuffleArray(validDomains, seed), 0, count)]

\* The value is what the method returns; threw tells whether it threw instead
generateCreativeDomains(keywords, tlds, mode, count, brainstormAnswer, creativeAnswer, seed) ==
  LET llmDomains == llmBrainstormWithTlds(keywords, tlds, (count * 6) \div 10,
                                          brainstormAnswer)
      domains ==
        pushWhileBelow(llmDomains.value, directKeywordDomains(keywords, tlds), count)
          \o wordSlicingDomains(keywords, tlds)
          \o portmanteauDomains(keywords, tlds)
          \o creativeWordDomains(keywords, tlds)
          \o vowelRemovalDomains(keywords, tlds)
          \o numberSubstitutionDomains(keywords, tlds)
          \o llmCreativeDomains(mode, creativeAnswer)
      validDomains == uniqueByDomain(SelectSeq(domains,
                                               LAMBDA d : isValidDomain(d.domain)))
  IN IF llmDomains.threw
     THEN [threw |-> TRUE, value |-> <<>>]
     ELSE [threw |-> FALSE, value |-> slice(shuffleArray(validDomains, seed), 0, count)]

\* suggestDomains up to its availability check
SuggestDomains(businessDescription, mode, maxSuggestionsArg, brainstormAnswer, creativeAnswer, seed) ==
  /\ pc = "idle"
  /\ LET keywords == extractKeywords(businessDescription)
         tlds == selectTldsForMode(mode, keywords)
         generated == generateCreativeDomains(keywords, tlds, mode,
                                              maxSuggestionsArg * 3, brainstormAnswer,
                                              creativeAnswer, seed)
     IN IF generated.threw
        THEN /\ thrown' = TRUE
             /\ pc' = "done"
             /\ UNCHANGED <<generatedDomains, domainInfos, checkKeywords, caller>>
        ELSE /\ generatedDomains' = generated.value
             /\ domainInfos' = slice(generated.value, 0, maxSuggestionsArg * 2)
             /\ checkKeywords' = keywords
             /\ caller' = "suggestDomains"
             /\ pc' = "checkLoop"
             /\ UNCHANGED thrown
  /\ maxSuggestions' = maxSuggestionsArg
  /\ selectedTlds' =
       selectTldsForMode(mode, extractKeywords(businessDescription))
  /\ brainstormOutcome' = IF brainstormAnswer.ok THEN "answered" ELSE "failed"
  /\ batchStart' = 0
  /\ results' = <<>>
  /\ failedLookups' = {}
  /\ UNCHANGED <<allTlds, providerName, evaluated, deepVars, inflight, settled, searchResult,
                 scoredNow>>

\* A variant of the limit that keeps every checked result
keepsEveryResult(sorted, limit) == sorted

\* results.slice(0, maxSuggestions) of the sorted results
limitResults(sorted, limit) == slice(sorted, 0, limit)

\* results.reduce((sum, r) => sum + r.score, 0), in quarters of a point
RECURSIVE sumOfScores(_)
sumOfScores(list) ==
  IF Len(list) = 0 THEN 0 ELSE list[1].score + sumOfScores(Tail(list))

\* Math.min(10, strategies.length * 2 + avgScore / 2 + tldDiversity / 3), where
\* avgScore is the sum of the scores divided by results.length: 0 / 0, which is
\* NaN, when there are no results, and then the minimum is NaN too
calculateCreativityScore(list) ==
  LET n == Len(list)
      strategies == Cardinality({list[i].strategy : i \in 1..n})
      tldDiversity == Cardinality({list[i].tld : i \in 1..n})
      num == 48 * n * strategies + 3 * sumOfScores(list) + 8 * n * tldDiversity
      den == 24 * n
  IN IF n = 0 THEN NaN
     ELSE IF num > 10 * den THEN [nan |-> FALSE, num |-> 10 * den, den |-> den]
     ELSE [nan |-> FALSE, num |-> num, den |-> den]

\* suggestDomains after its availability check: the results ranked by score,
\* cut to maxSuggestions and grouped
SuggestReturns ==
  /\ pc = "checkLoop"
  /\ batchStart >= Len(domainInfos)
  /\ caller = "suggestDomains"
  /\ LET limitedResults == limitResults(sortByScore(results), maxSuggestions)
     IN searchResult' =
          [available |-> SelectSeq(limitedResults, LAMBDA r : r.available),
           taken |-> SelectSeq(limitedResults, LAMBDA r : ~r.available /\ ~r.isPremium),
           premium |-> SelectSeq(limitedResults, LAMBDA r : r.isPremium),
           totalGenerated |-> Len(generatedDomains),
           creativityScore |-> calculateCreativityScore(limitedResults)]
  /\ pc' = "done"
  /\ UNCHANGED <<allTlds, providerName, evaluated, request, response,
                 caller, deepVars, checkVars, selectedTlds,
                 generatedDomains, maxSuggestions, thrown, brainstormOutcome,
                 scoredNow>>

(***************************************************************************)
(* The calls a client makes, and the next-state relation                   *)
(***************************************************************************)
\* The business descriptions a client passes: the example of the README, one
\* of stop words only, one of a single word of 64 letters, and one with
\* capitals and punctuation whose words the slicing and substitution
\* strategies apply to
Descriptions ==
  { <<"a","r","t","i","s","a","n","a","l"," ","p","i","c","k","l","e"," ",
      "f","a","c","t","o","r","y">>,
    <<"t","h","e"," ","a","n","d">>,
    [i \in 1..64 |-> "a"],
    <<"T","o","m","a","t","o"," ","S","t","u","d","i","o","!">> }

SearchModes == {"standard", "competitive", "premium", "budget", "international"}

\* The maxSuggestions arguments a client passes: 3 (six domains to check,
\* more than one batch of five) in the default mode and for a description
\* with capitals only
MaxSuggestionsArgs(description, mode) ==
  IF mode = "standard" /\ description[1] = "T" THEN {1, 2, 3} ELSE {1, 2}

\* The business description a client passes to deepTldExploration
DeepDescription ==
  <<"a","r","t","i","s","a","n","a","l"," ","p","i","c","k","l","e"," ",
    "f","a","c","t","o","r","y">>

\* The keywords a client passes to deepTldExploration
pickleKeywords == << <<"p","i","c","k","l","e">>, <<"a","i">> >>

\* The calls of deepTldExploration a client makes: keywords absent or given,
\* batch sizes from one TLD to more than a catalog holds, the availability
\* check asked for or not
DeepCalls ==
  { [keywords |-> <<>>, batchSize |-> 10, maxBatches |-> 1, checkAvailability |-> FALSE],
    [keywords |-> <<>>, batchSize |-> 10, maxBatches |-> 2, checkAvailability |-> FALSE],
    [keywords |-> pickleKeywords, batchSize |-> 3, maxBatches |-> 2,
     checkAvailability |-> FALSE],
    [keywords |-> pickleKeywords, batchSize |-> 3, maxBatches |-> 1,
     checkAvailability |-> FALSE],
    [keywords |-> <<>>, batchSize |-> 1, maxBatches |-> 1, checkAvailability |-> FALSE],
    [keywords |-> pickleKeywords, batchSize |-> 1, maxBatches |-> 2,
     checkAvailability |-> TRUE] }

\* The domain lists a client passes to checkMultipleDomains
DomainLists ==
  { << <<"e","x","a","m","p","l","e",".","c","o","m">>,
       <<"t","e","s","t",".","i","o">> >>,
    << <<"e","x","a","m","p","l","e",".","c","o","m">>,
       <<"t","e","s","t",".","i","o">>,
       <<"p","i","c","k","l","e",".","a","i">>,
       <<"b","r","i","n","e",".","d","e","v">>,
       <<"f","a","c","t","o","r","y",".","a","p","p">>,
       <<"p","i","c","k","l","e",".","t","e","c","h">> >>,
    << <<"p","i","c","k","l","e",".","a","i">>,
       <<"a",".","c","o","m">>,
       <<"m","y"," ","s","h","o","p",".","c","o","m">> >> }

\* A list of 21 domains, one more than a check-domain call may carry; its
\* first six are the second list above
DomainLists21 ==
  << <<"e","x","a","m","p","l","e",".","c","o","m">>,
     <<"t","e","s","t",".","i","o">>,
     <<"p","i","c","k","l","e",".","a","i">>,
     <<"b","r","i","n","e",".","d","e","v">>,
     <<"f","a","c","t","o","r","y",".","a","p","p">>,
     <<"p","i","c","k","l","e",".","t","e","c","h">> >>
    \o [i \in 1..15 |-> <<"e","x","a","m","p","l","e",".","c","o","m">>]

\* The invocation has returned (or thrown) and the service is idle again
Returns ==
  /\ pc = "done"
  /\ request.name = "none" \/ response.status # "none"
  /\ pc' = "idle"
  /\ caller' = "none"
  /\ extractedKeywords' = <<>>
  /\ shuffledTlds' = <<>>
  /\ batchSize' = 0
  /\ maxBatches' = 0
  /\ checkAvailability' = FALSE
  /\ batch' = 0
  /\ totalBatches' = 0
  /\ standouts' = <<>>
  /\ slices' = <<>>
  /\ available' = <<>>
  /\ domainInfos' = <<>>
  /\ checkKeywords' = <<>>
  /\ batchStart' = 0
  /\ inflight' = {}
  /\ settled' = <<>>
  /\ results' = <<>>
  /\ failedLookups' = {}
  /\ selectedTlds' = <<>>
  /\ generatedDomains' = <<>>
  /\ maxSuggestions' = 0
  /\ searchResult' = emptySearchResult
  /\ thrown' = FALSE
  /\ brainstormOutcome' = "none"
  /\ scoredNow' = {}
  /\ request' = NoRequest
  /\ response' = NoResponse
  /\ UNCHANGED <<allTlds, providerName, evaluated, evaluated>>

\* The answers of the second text-generation request of suggestDomains, which
\* only the competitive mode makes (in the other modes no answer is read)
CreativeAnswers(mode) ==
  IF mode = "competitive" THEN LlmAnswers ELSE {[ok |-> FALSE, content |-> <<>>]}

(***************************************************************************)
(* The tool-call handler                                                   *)
(***************************************************************************)
\* An optional argument is the empty set when absent and {value} when given
Absent == {}

given(optional) == CHOOSE value \in optional : TRUE

\* JavaScript truthiness of an optional string: given and not empty
truthyString(optional) == optional # Absent /\ Len(given(optional)) > 0

\* SuggestDomainsSchema.parse(args) succeeds
SuggestDomainsSchema(args) ==
  /\ Len(args.businessDescription) >= 1
  /\ args.searchMode # Absent => given(args.searchMode) \in SearchModes
  /\ args.maxSuggestions # Absent =>
       given(args.maxSuggestions) >= 1 /\ given(args.maxSuggestions) <= 50

\* A variant of CheckDomainSchema without its second refinement
CheckDomainSchemaEither(args) ==
  /\ truthyString(args.domain)
       \/ (args.domains # Absent /\ Len(given(args.domains)) > 0)
  /\ args.domains = Absent \/ Len(given(args.domains)) <= 20

\* CheckDomainSchema.parse(args) succeeds: its three refinements
CheckDomainSchema(args) ==
  /\ truthyString(args.domain)
       \/ (args.domains # Absent /\ Len(given(args.domains)) > 0)
  /\ ~(truthyString(args.domain) /\ args.domains # Absent)
  /\ args.domains = Absent \/ Len(given(args.domains)) <= 20

\* DeepTldSchema.parse(args) succeeds
DeepTldSchema(args) ==
  /\ Len(args.businessDescription) >= 1
  /\ args.batchSize # Absent =>
       given(args.batchSize) >= 10 /\ given(args.batchSize) <= 500
  /\ args.maxBatches # Absent =>
       given(args.maxBatches) >= 1 /\ given(args.maxBatches) <= 20

\* "argument || fallback" on an optional number
orDefault(optional, fallback) ==
  IF optional = Absent \/ given(optional) = 0 THEN fallback ELSE given(optional)

\* A variant of the handler's try/catch that lets the error through
rethrows(prefix, outcome) ==
  IF outcome.threw
  THEN [status |-> "threw", isError |-> FALSE, text |-> outcome.text]
  ELSE [status |-> "returned", isError |-> FALSE, text |-> outcome.text]

\* The try/catch around each case of the handler: what it returns for the
\* outcome of its try block
tryCatch(prefix, outcome) ==
  IF outcome.threw
  THEN [status |-> "returned", isError |-> TRUE, text |-> prefix]
  ELSE [status |-> "returned", isError |-> FALSE, text |-> outcome.text]

\* What the service holds, which a rejected call leaves alone
serviceVars ==
  <<allTlds, providerName, evaluated, caller, deepVars, checkVars, suggestVars, thrown,
    brainstormOutcome, scoredNow>>

\* Schema.parse(args) throws inside the try block: the catch block answers
Rejects(prefix) ==
  /\ response' = tryCatch(prefix, [threw |-> TRUE, text |-> "ZodError"])
  /\ pc' = "done"
  /\ UNCHANGED serviceVars

\* A default parameter value: used when the argument is undefined
defaulted(optional, fallback) ==
  IF optional = Absent THEN fallback ELSE given(optional)

\* The single-domain check of the handler: what it says of the status list
\* that checkDomain returned
singleCheckVerdict(status) ==
  LET isAvailable == Len(status) > 0
                       /\ status[1].summary = <<"i","n","a","c","t","i","v","e">>
      isPremium == Len(status) > 0
                     /\ includes(status[1].status, <<"p","r","e","m","i","u","m">>)
  IN IF isPremium
     THEN (IF isAvailable THEN "PREMIUM" ELSE "PREMIUM (TAKEN)")
     ELSE (IF isAvailable THEN "AVAILABLE" ELSE "TAKEN")

\* The suggest-domains calls a host makes
SuggestToolCalls ==
  { [name |-> "suggest-domains", businessDescription |-> description,
     searchMode |-> mode, maxSuggestions |-> limit] :
      description \in {<<>>, DeepDescription},
      mode \in {Absent, {"competitive"}, {"turbo"}},
      limit \in {{0}, {1}, {2}, {51}} }

\* The check-domain calls a host makes
CheckToolCalls ==
  { [name |-> "check-domain", domain |-> domain, domains |-> domains] :
      domain \in {Absent, {<<>>}} \cup {{DomainLists21[i]} : i \in 1..5},
      domains \in {Absent, {<<>>}, {SubSeq(DomainLists21, 1, 2)},
                   {SubSeq(DomainLists21, 1, 6)}, {DomainLists21}} }

\* The deep-tld calls a host makes: the availability check is asked for in
\* one call, of batches of one TLD
DeepToolCalls ==
  { [name |-> "deep-tld", businessDescription |-> description,
     keywords |-> Absent, batchSize |-> size, maxBatches |-> limit,
     checkAvailability |-> Absent] :
      description \in {<<>>, DeepDescription},
      size \in {Absent, {9}, {10}, {501}},
      limit \in {Absent, {0}, {1}, {21}} }
    \cup { [name |-> "deep-tld", businessDescription |-> DeepDescription,
            keywords |-> {pickleKeywords}, batchSize |-> {10},
            maxBatches |-> {20}, checkAvailability |-> {TRUE}] }

\* A call of a tool the server does not have
UnknownToolCalls == {[name |-> "whois"]}

\* case "suggest-domains"
CallSuggestDomainsTool ==
  /\ pc = "idle"
  /\ \E args \in SuggestToolCalls, brainstormAnswer \in LlmAnswers,
        seed \in 0..(NumSeeds - 1) :
       /\ request' = args
       /\ IF SuggestDomainsSchema(args)
          THEN /\ \E creativeAnswer \in
                      CreativeAnswers(defaulted(args.searchMode, "standard")) :
                    SuggestDomains(args.businessDescription,
                                   defaulted(args.searchMode, "standard"),
                                   defaulted(args.maxSuggestions, 15),
                                   brainstormAnswer, creativeAnswer, seed)
               /\ response' = NoResponse
          ELSE Rejects("Error generating domain suggestions")

\* case "check-domain"
CallCheckDomainTool ==
  /\ pc = "idle"
  /\ \E args \in CheckToolCalls :
       /\ request' = args
       /\ IF ~CheckDomainSchema(args)
          THEN Rejects("Error checking domain(s)")
          ELSE IF truthyString(args.domain)
          THEN /\ pc' = "checkDomain"
               /\ response' = NoResponse
               /\ UNCHANGED serviceVars
          ELSE IF args.domains # Absent
          THEN /\ CheckMultipleDomains(given(args.domains))
               /\ response' = NoResponse
          ELSE /\ response' = [status |-> "returned", isError |-> TRUE,
                               text |-> "Error: No domain or domains provided"]
               /\ pc' = "done"
               /\ UNCHANGED serviceVars

\* The request of checkDomain ends: the provider answered, or it failed and
\* checkDomain threw
CheckDomainSettles ==
  /\ pc = "checkDomain"
  /\ \E fails \in BOOLEAN : thrown' = fails
  /\ pc' = "done"
  /\ UNCHANGED <<allTlds, providerName, evaluated, request, response, caller, deepVars,
                 checkVars, suggestVars, brainstormOutcome, scoredNow>>

\* case "deep-tld"
CallDeepTldTool ==
  /\ pc = "idle"
  /\ \E args \in DeepToolCalls, seed \in 0..(NumSeeds - 1) :
       /\ request' = args
       /\ IF DeepTldSchema(args)
          THEN /\ DeepTldExploration(args.businessDescription,
                                     defaulted(args.keywords, <<>>),
                                     orDefault(args.batchSize, 200),
                                     orDefault(args.maxBatches, 10),
                                     args.checkAvailability = {TRUE}, seed)
               /\ response' = NoResponse
          ELSE Rejects("Error in deep TLD exploration")

\* The default case of the switch
CallUnknownTool ==
  /\ pc = "idle"
  /\ \E args \in UnknownToolCalls : request' = args
  /\ response' = [status |-> "returned", isError |-> TRUE, text |-> "Unknown tool"]
  /\ pc' = "done"
  /\ UNCHANGED serviceVars

\* The awaited call of the service has ended: the handler formats its result,
\* or its catch block answers when the call threw
HandlerResponds ==
  /\ pc = "done"
  /\ request.name # "none"
  /\ response.status = "none"
  /\ response' =
       CASE request.name = "suggest-domains" ->
              tryCatch("Error generating domain suggestions",
                       [threw |-> thrown, text |-> "DOMAIN SUGGESTIONS"])
         [] request.name = "deep-tld" ->
              tryCatch("Error in deep TLD exploration",
                       [threw |-> thrown, text |-> "DEEP TLD EXPLORATION"])
         [] request.name = "check-domain" /\ truthyString(request.domain) ->
              tryCatch("Error checking domain(s)",
                       [threw |-> thrown,
                        text |-> singleCheckVerdict(
                                   checkDomainStatus(given(request.domain)))])
         [] OTHER ->
              tryCatch("Error checking domain(s)",
                       [threw |-> thrown, text |-> "BATCH DOMAIN CHECK"])
  /\ UNCHANGED <<pc, request, serviceVars>>

\* A client calls suggestDomains
CallsSuggestDomains ==
  \E description \in Descriptions, mode \in SearchModes,
     brainstormAnswer \in LlmAnswers, seed \in 0..(NumSeeds - 1) :
    \E maxSuggestionsArg \in MaxSuggestionsArgs(description, mode),
       creativeAnswer \in CreativeAnswers(mode) :
      /\ SuggestDomains(description, mode, maxSuggestionsArg, brainstormAnswer,
                        creativeAnswer, seed)
      /\ UNCHANGED <<request, response>>

\* A client calls checkMultipleDomains
CallsCheckMultipleDomains ==
  \E domains \in DomainLists :
    CheckMultipleDomains(domains) /\ UNCHANGED <<request, response>>

\* A client calls deepTldExploration
CallsDeepTldExploration ==
  \E call \in DeepCalls, seed \in 0..(NumSeeds - 1) :
    /\ DeepTldExploration(DeepDescription, call.keywords, call.batchSize,
                          call.maxBatches, call.checkAvailability, seed)
    /\ UNCHANGED <<request, response>>

\* The text-generation API answers the request of the batch
DeepBatchAnswered == \E answer \in LlmAnswers : DeepBatch(answer)

(***************************************************************************)
(* A run of deepTldExploration that collects more standouts than it keeps  *)
(***************************************************************************)
\* A tlds.txt of 19 lines, every one a TLD that holds the letters "ai"
wideCatalog ==
  <<
    <<".","a","i">>, <<".","e","m","a","i","l">>,
    <<".","t","r","a","i","n","i","n","g">>, <<".","r","e","p","a","i","r">>,
    <<".","a","i","r","f","o","r","c","e">>, <<".","x","n","-","-","p","1","a","i">>,
    <<".","d","u","b","a","i">>, <<".","b","a","i","d","u">>, <<".","h","a","i","r">>,
    <<".","a","i","g">>, <<".","a","i","r","b","u","s">>,
    <<".","a","i","r","t","e","l">>, <<".","g","m","a","i","l">>,
    <<".","h","o","t","m","a","i","l">>, <<".","d","a","i","l","y">>,
    <<".","r","e","t","a","i","l">>, <<".","c","l","a","i","m","s">>,
    <<".","f","a","i","l">>, <<".","m","a","i","f">> >>

\* A text of 14 lines, each a domain under .ai: of the first twelve, eleven
\* score 6 or more, in no order
wideContent ==
  <<
    "b", "r", "i", "n", "e", ".", "a", "i", "\n", "p", "i", "c", "k", "l", "e", ".",
    "a", "i", "\n", "b", "r", "r", "r", ".", "a", "i", "\n", "p", "i", "c", "k", "l",
    "e", "s", ".", "a", "i", "\n", "m", "y", "p", "i", "c", "k", "l", "e", ".", "a",
    "i", "\n", "p", "i", "c", "k", "l", "e", "d", ".", "a", "i", "\n", "d", "i", "l",
    "l", ".", "a", "i", "\n", "p", "i", "c", "k", "l", "e", "r", ".", "a", "i", "\n",
    "p", "i", "c", "k", "l", "e", "r", "y", ".", "a", "i", "\n", "j", "a", "r", ".",
    "a", "i", "\n", "p", "i", "c", "k", "l", "e", "a", "i", ".", "a", "i", "\n", "g",
    "h", "e", "r", "k", "i", "n", ".", "a", "i", "\n", "p", "i", "c", "k", "l", "e",
    "j", "a", "r", ".", "a", "i", "\n", "p", "1", "c", "k", "l", "e", ".", "a", "i" >>

\* A text of three lines, one of them under .email
narrowContent ==
  <<
    "p", "i", "c", "k", "l", "e", ".", "e", "m", "a", "i", "l", "\n", "z", "e", "b",
    "r", "a", ".", "a", "i", "\n", "p", "i", "c", "k", "l", "e", ".", "a", "i" >>

\* The answers of one text-generation request in such a run
WideAnswers ==
  { [ok |-> FALSE, content |-> <<>>],
    [ok |-> TRUE, content |-> wideContent],
    [ok |-> TRUE, content |-> narrowContent] }

\* The state after construction over the 19 lines
InitWide == InitOver({wideCatalog})

\* A client calls deepTldExploration for slices of six TLDs: four batches of
\* up to twelve combinations each
CallsWideExploration ==
  \E checkAvailabilityArg \in BOOLEAN, seed \in 0..(NumSeeds - 1) :
    /\ DeepTldExploration(DeepDescription, pickleKeywords, 6, 3,
                          checkAvailabilityArg, seed)
    /\ UNCHANGED <<request, response>>

\* The text-generation API answers the request of the batch
WideBatchAnswered == \E answer \in WideAnswers : DeepBatch(answer)

\* The run up to the ranking of its standouts (the availability check of the
\* ranked standouts is not followed)
NextWide ==
  \/ CallsWideExploration
  \/ WideBatchAnswered
  \/ DeepSleep
  \/ DeepRanks
  \/ Returns

SpecWide == InitWide /\ [][NextWide]_vars

(***************************************************************************)
(* The methods evaluated on their own                                      *)
(***************************************************************************)
\* The longest base label the validator accepts
MaxLabel == 63

\* Base labels: too short, shortest, with hyphens in every position, with a
\* character outside the alphabet, with capitals and digits, of the longest
\* length and one longer, and the longest with a hyphen inside or at its end
BaseLabels ==
  { <<>>, <<"a">>, <<"a","b">>, <<"a","-","b">>, <<"-","a","b">>,
    <<"a","b","-">>, <<"a","-","-","b">>, <<"a","_","b">>, <<"A","1">>,
    <<"a"," ","b">>, <<"-">>, <<"1","-","2","-","3">>,
    [i \in 1..MaxLabel |-> "a"],
    [i \in 1..(MaxLabel + 1) |-> "a"],
    [i \in 1..MaxLabel |-> IF i = 2 THEN "-" ELSE "a"],
    [i \in 1..MaxLabel |-> IF i = MaxLabel THEN "-" ELSE "a"] }

\* What follows the base label: nothing, one label (too short, shortest, with
\* a hyphen, with an underscore, empty) or two labels
LabelSuffixes ==
  { <<>>, <<".","c">>, <<".","c","o">>, <<".","c","-","m">>, <<".","x","1">>,
    <<".","c","o",".","u","k">>, <<".">>, <<".","c","_">>,
    <<".","C","O","M">> }

DomainStrings == {base \o suffix : base \in BaseLabels, suffix \in LabelSuffixes}

\* isValidDomain is evaluated on a string
ValidatesDomain ==
  /\ \E domain \in DomainStrings :
       evaluated' = [method |-> "isValidDomain", domain |-> domain,
                     value |-> isValidDomain(domain)]
  /\ UNCHANGED <<allTlds, providerName, pc, caller, deepVars, checkVars, suggestVars,
                 thrown, brainstormOutcome, scoredNow, request, response>>

SpecValidate == Init /\ [][ValidatesDomain]_vars

\* Base labels of every length class (0, 1, 2, 3, 4, 6, 7, 8, 9, 12, 13 and 15
\* characters; of 2 characters with a keyword in it and with none), with capitals, a digit, a hyphen, a character four times in a
\* row, a character four times apart, and no vowel
ScoredBases ==
  {
    <<>>, <<"a">>, <<"a","i">>, <<"a","b">>, <<"a","b","c">>, <<"p","i","c","k">>,
    <<"p","i","c","k","l","e">>, <<"P","I","C","K","L","E">>,
    <<"p","i","c","k","l","e","s">>, <<"p","i","c","k","l","e","r","s">>,
    <<"p","i","c","k","l","e","j","a","r">>,
    <<"p","i","c","k","l","e","f","a","c","t","o","r">>,
    <<"p","i","c","k","l","e","f","a","c","t","o","r","y">>,
    <<"a","r","t","i","s","a","n","a","l","p","i","c","k","l","e">>,
    <<"p","1","c","k","l","e">>, <<"p","i","c","k","-","l","e">>,
    <<"p","a","a","a","a","l","e">>, <<"a","b","a","c","a","d","a">>,
    <<"p","c","k","l">>, <<"x","9">> }

\* What follows the base label: nothing, each TLD the method rewards, one it
\* does not, a suffix of two labels, and a rewarded TLD in capitals
ScoredSuffixes ==
  {
    <<>>, <<".","c","o","m">>, <<".","i","o">>, <<".","a","i">>, <<".","a","p","p">>,
    <<".","d","e","v">>, <<".","c","o">>, <<".","n","e","t">>, <<".","o","r","g">>,
    <<".","x","y","z">>, <<".","c","o",".","u","k">>, <<".","C","O","M">> }

ScoredDomains == {base \o suffix : base \in ScoredBases, suffix \in ScoredSuffixes}

\* The strategies of the weight table, and two that are not in it
ScoredStrategies ==
  {"word-slicing", "portmanteau", "llm-creative", "creative-combination",
   "vowel-removal", "direct-keyword", "creative-prefix", "number-substitution",
   "batch-check", "llm-intelligent-tld"}

\* Keyword lists: none, one the bases equal or contain, one in capitals next
\* to one no base contains, and the empty keyword
ScoredKeywords ==
  { <<>>, <<<<"p","i","c","k","l","e">>>>, <<<<"P","I","C","K">>, <<"z","e","b","r","a">>>>, << <<>> >> }

\* calculateAdvancedScore is evaluated on a domain, a strategy and keywords;
\* a behaviour follows one evaluation
ScoresDomain ==
  /\ evaluated.method = "none"
  /\ \E domain \in ScoredDomains, strategy \in ScoredStrategies,
        keywords \in ScoredKeywords :
       evaluated' = [method |-> "calculateAdvancedScore", domain |-> domain,
                     strategy |-> strategy, keywords |-> keywords,
                     value |-> calculateAdvancedScore(domain, strategy, keywords)]
  /\ UNCHANGED <<allTlds, providerName, pc, caller, deepVars, checkVars, suggestVars,
                 thrown, brainstormOutcome, scoredNow, request, response>>

SpecScore == Init /\ [][ScoresDomain]_vars

\* A tlds.txt that holds every TLD of techTlds and of funTlds, and four
\* country TLDs
richCatalog ==
  techTldNames \o funTldNames
    \o << <<".","c","o">>, <<".","u","k">>, <<".","d","e">>, <<".","f","r">> >>

\* The search modes, and two that are none of them
SelectedModes ==
  {"standard", "competitive", "premium", "budget", "international", "turbo", ""}

\* Keyword lists that name no industry, one, two, one twice, and all six
IndustryKeywords ==
  { <<>>,
    <<<<"t","e","c","h">>>>,
    <<<<"b","a","n","k">>>>,
    <<<<"h","e","a","l","t","h">>>>,
    <<<<"f","o","o","d">>>>,
    <<<<"t","r","a","v","e","l">>>>,
    <<<<"s","c","h","o","o","l">>>>,
    <<<<"p","i","c","k","l","e">>>>,
    <<<<"a","i","d","a","t","a">>, <<"f","i","n","a","n","c","e">>>>,
    <<<<"t","e","c","h">>, <<"d","i","g","i","t","a","l">>>>,
    <<<<"s","o","f","t","w","a","r","e">>, <<"m","o","n","e","y">>, <<"c","a","r","e">>, <<"c","a","f","e">>, <<"h","o","t","e","l">>, <<"l","e","a","r","n">>>> }

\* The service is constructed over one of the catalogs or over the rich one
InitSelect == InitOver(Catalogs \cup {richCatalog})

\* selectTldsForMode is evaluated on a mode and keywords; a behaviour follows
\* one evaluation
SelectsTlds ==
  /\ evaluated.method = "none"
  /\ \E mode \in SelectedModes, keywords \in IndustryKeywords :
       evaluated' = [method |-> "selectTldsForMode", mode |-> mode,
                     keywords |-> keywords,
                     value |-> selectTldsForMode(mode, keywords)]
  /\ UNCHANGED <<allTlds, providerName, pc, caller, deepVars, checkVars, suggestVars,
                 thrown, brainstormOutcome, scoredNow, request, response>>

SpecSelect == InitSelect /\ [][SelectsTlds]_vars

\* Descriptions for the keyword extraction: empty, of spaces, of stop words,
\* with a word twice, with capitals, digits and punctuation inside words, with
\* tabs and line ends, and with words of one to three letters
ExtractedDescriptions ==
  Descriptions \cup
  { <<>>,
    <<" "," "," ">>,
    <<"t","h","e">>,
    <<"p","i","c","k","l","e">>,
    <<"t","h","e"," ","p","i","c","k","l","e"," ","t","h","e"," ","p","i","c","k","l","e">>,
    <<"W","e","b","3"," ","s","h","o","p","-","f","o","r"," ","A","L","L">>,
    <<"a","b"," ","c","d"," ","e","f","g">>,
    <<" ","l","e","a","d"," ","a","n","d"," ","t","r","a","i","l"," ">>,
    <<"t","a","b","\t","s","e","p","\n","l","i","n","e"," "," ","e","n","d">>,
    <<"a","1","b","2","c","3","d">>,
    <<"T","H","E"," ","A","N","D"," ","F","O","R">>,
    <<"w","h","a","t"," ","w","e","r","e"," ","y","o","u">>,
    <<"c","o","-","o","p"," ","c","a","f","3">>,
    <<"x"," ","y"," ","z">>,
    <<"d","a","t","a",","," ","t","e","c","h",";"," ","a","i","!">>,
    <<"h","a","v","e"," ","h","a","d"," ","h","e","r"," ","o","n","e">>,
    <<"9","9"," ","1","0","0">> }

\* extractKeywords is evaluated on a description
ExtractsKeywords ==
  /\ \E description \in ExtractedDescriptions :
       evaluated' = [method |-> "extractKeywords", description |-> description,
                     value |-> extractKeywords(description)]
  /\ UNCHANGED <<allTlds, providerName, pc, caller, deepVars, checkVars, suggestVars,
                 thrown, brainstormOutcome, scoredNow, request, response>>

SpecExtract == Init /\ [][ExtractsKeywords]_vars

\* The service with the check-domains tool only
NextCheck ==
  \/ CallsCheckMultipleDomains
  \/ CheckMultipleDomainsReturns
  \/ StartBatch
  \/ LookupSettles
  \/ CollectBatch
  \/ CheckDelay
  \/ Returns

SpecCheck == Init /\ [][NextCheck]_vars

\* The service with the deep-tld tool only
NextDeep ==
  \/ CallsDeepTldExploration
  \/ DeepBatchAnswered
  \/ DeepSleep
  \/ DeepRanks
  \/ DeepReturns
  \/ StartBatch
  \/ LookupSettles
  \/ CollectBatch
  \/ CheckDelay
  \/ Returns

SpecDeep == Init /\ [][NextDeep]_vars

\* The service with the suggest-domains tool only
NextSuggest ==
  \/ CallsSuggestDomains
  \/ SuggestReturns
  \/ StartBatch
  \/ LookupSettles
  \/ CollectBatch
  \/ CheckDelay
  \/ Returns

SpecSuggest == Init /\ [][NextSuggest]_vars

\* The server: every call arrives through the tool-call handler
NextHandler ==
  \/ CallSuggestDomainsTool
  \/ CallCheckDomainTool
  \/ CallDeepTldTool
  \/ CallUnknownTool
  \/ CheckDomainSettles
  \/ StartBatch
  \/ LookupSettles
  \/ CollectBatch
  \/ CheckDelay
  \/ SuggestReturns
  \/ CheckMultipleDomainsReturns
  \/ DeepBatchAnswered
  \/ DeepSleep
  \/ DeepRanks
  \/ DeepReturns
  \/ HandlerResponds
  \/ Returns

SpecHandler == Init /\ [][NextHandler]_vars

\* The service with its three tools
Next ==
  \/ CallsSuggestDomains
  \/ SuggestReturns
  \/ CallsCheckMultipleDomains
  \/ CheckMultipleDomainsReturns
  \/ StartBatch
  \/ LookupSettles
  \/ CollectBatch
  \/ CheckDelay
  \/ CallsDeepTldExploration
  \/ DeepBatchAnswered
  \/ DeepSleep
  \/ DeepRanks
  \/ DeepReturns
  \/ Returns

Spec == Init /\ [][Next]_vars

(***************************************************************************)
(* Properties of deepTldExploration                                        *)
(***************************************************************************)
\* The arrays of a sequence of arrays, one after the other
concatAll(arrays) == flatMap(arrays, LAMBDA a : a)

\* How often x occurs in arr
occurrences(arr, x) == Cardinality({i \in 1..Len(arr) : arr[i] = x})

\* A run of deepTldExploration is in progress or has just ended
inDeepRun == shuffledTlds # <<>>

\* The loop of the run of deepTldExploration is over
deepLoopOver ==
  inDeepRun /\ pc \in {"done", "checkLoop", "checkInFlight", "checkDelay"}

checkLoopOver ==
  \/ pc = "checkLoop" /\ batchStart >= Len(domainInfos)
  \/ pc = "done" /\ caller \in {"checkMultipleDomains", "suggestDomains",
                                "deepTldExploration"}

\* C2: checkDomainsInBatches drops no domain, whichever lookups fail: the
\* results hold one entry for each domain of the batches collected so far, in
\* the order given, and once the loop is over as many entries as domains given
C2_NoDomainDropped ==
  /\ Len(results) = Min(batchStart, Len(domainInfos))
  /\ \A i \in 1..Len(results) : results[i].domain = domainInfos[i].domain
  /\ checkLoopOver => Len(results) = Len(domainInfos)

\* C2: checkMultipleDomains has returned six results for six domains, checked
\* in two batches, with lookups of both batches failed
C2_Witness ==
  /\ pc = "done"
  /\ caller = "checkMultipleDomains"
  /\ providerName = "domainr"
  /\ Len(domainInfos) = 6
  /\ Len(results) = 6
  /\ {2, 6} \subseteq failedLookups

\* C3: a failed lookup is isolated.  No error escapes; the candidate whose
\* lookup failed is emitted as not available, not premium and without a
\* premium price; and every other candidate, of the same batch or a later one,
\* is emitted as the provider reports it, whichever other lookups failed
C3_FailureIsolated ==
  LET asReported(i) == checkedRecord(domainInfos[i], checkKeywords,
                                     checkDomainStatus(domainInfos[i].domain))
      emitted(i, r) ==
        /\ r.domain = domainInfos[i].domain
        /\ i \in failedLookups =>
             /\ r.available = FALSE
             /\ r.isPremium = FALSE
             /\ r.premiumPrice = Undefined
        /\ i \notin failedLookups => r = asReported(i)
  IN /\ ~thrown
     /\ \A i \in 1..Len(results) : emitted(i, results[i])
     /\ \A k \in DOMAIN settled :
          settled[k].status = "fulfilled" /\ emitted(k, settled[k].value)
     /\ checkLoopOver => Len(results) = Len(domainInfos)

\* C3: the lookup of test.io, which is free, failed and the domain is reported
\* as not available, while pickle.ai of the same batch and pickle.tech of the
\* next batch are reported as the provider knows them
C3_Witness ==
  /\ pc = "done"
  /\ providerName = "domainr"
  /\ Len(results) = 6
  /\ failedLookups = {2}
  /\ results[2].domain = <<"t","e","s","t",".","i","o">>
  /\ ~results[2].available
  /\ results[1] = checkedRecord(domainInfos[1], checkKeywords,
                                checkDomainStatus(domainInfos[1].domain))
  /\ results[3].available /\ results[3].isPremium
  /\ ~results[6].available

(***************************************************************************)
(* Properties of the scoring stage                                         *)
(***************************************************************************)
\* C4: every domain that is scored has passed isValidDomain, on every path to
\* calculateAdvancedScore
C4_OnlyValidDomainsScored ==
  \A call \in scoredNow : isValidDomain(call.domain)

C10_AtMostMaxBatches ==
  inDeepRun =>
    /\ totalBatches <= maxBatches
    /\ \A i \in 1..Len(slices) : Len(slices[i]) <= batchSize
    /\ Len(concatAll(slices)) <= batchSize * maxBatches

\* The calls of calculateAdvancedScore the state records: those of the last
\* step, and those behind the results of the availability check
recordedScoreCalls ==
  scoredNow
    \cup {[domain |-> results[i].domain, strategy |-> results[i].strategy,
           keywords |-> checkKeywords, score |-> results[i].score] :
            i \in 1..Len(results)}
    \cup {[domain |-> settled[k].value.domain, strategy |-> settled[k].value.strategy,
           keywords |-> checkKeywords, score |-> settled[k].value.score] :
            k \in DOMAIN settled}

\* C8: calculateAdvancedScore is deterministic and bounded: two calls with the
\* same domain, strategy and keywords return the same value, and every value is a
\* multiple of 0.5 from 1 to 10
C8_ScoreDeterministicAndBounded ==
  /\ \A call \in recordedScoreCalls :
       /\ call.score >= Half(2)
       /\ call.score <= Half(20)
       /\ \E k \in 2..20 : call.score = Half(k)
  /\ \A i \in 1..Len(standouts) :
       \E k \in 2..20 : standouts[i].score = Half(k)
  /\ \A a, b \in recordedScoreCalls :
       (a.domain = b.domain /\ a.strategy = b.strategy /\ a.keywords = b.keywords)
         => a.score = b.score

\* C8: a batch has been scored in which one candidate, whose terms sum to
\* more than 10, got the score 10 and another one a score below 10
C8_Witness ==
  /\ pc \in {"deepLoop", "deepSleep"}
  /\ \E call \in scoredNow :
       /\ call.score = Half(20)
       /\ rawScore(call.domain, call.strategy, call.keywords) > Half(20)
  /\ \E call \in scoredNow : call.score < Half(20)

(***************************************************************************)
(* Properties of generateCreativeDomains and of the text-generation        *)
(* requests                                                                *)
(***************************************************************************)
\* generateCreativeDomains has returned to suggestDomains
afterGeneration == caller = "suggestDomains"

\* The strategies of generateCreativeDomains that make no request
deterministicStrategies ==
  {"direct-keyword", "word-slicing", "portmanteau", "creative-combination",
   "creative-prefix", "vowel-removal", "number-substitution"}

\* One of the first two keywords, the first creative word and one of the
\* first eight TLDs make a valid domain
validDeterministicCandidate ==
  \E k \in 1..Min(2, Len(checkKeywords)), t \in 1..Min(8, Len(selectedTlds)) :
    isValidDomain(checkKeywords[k] \o creativeWords[1] \o selectedTlds[t])

\* C5: generateCreativeDomains returns no two candidates with the same domain
C5_NoDuplicateCandidates ==
  \A i, j \in 1..Len(generatedDomains) :
    i < j => generatedDomains[i].domain # generatedDomains[j].domain

\* C5: both text-generation requests answered with the text that names
\* pickle.ai twice; pickle.ai is returned once, as a candidate of the first
\* request, next to candidates of the second
C5_Witness ==
  /\ afterGeneration
  /\ Len(generatedDomains) >= 4
  /\ \E i \in 1..Len(generatedDomains) :
       /\ generatedDomains[i].strategy = "llm-intelligent-tld"
       /\ generatedDomains[i].domain = <<"p","i","c","k","l","e",".","a","i">>
  /\ \E i \in 1..Len(generatedDomains) :
       generatedDomains[i].strategy = "llm-creative"

C7_LlmFailureContained ==
  /\ ~thrown
  /\ (afterGeneration /\ brainstormOutcome = "failed") =>
       /\ pc \in {"checkLoop", "checkInFlight", "checkDelay", "done"}
       /\ \A i \in 1..Len(generatedDomains) :
            generatedDomains[i].strategy # "llm-intelligent-tld"
       /\ validDeterministicCandidate =>
            \E i \in 1..Len(generatedDomains) :
              generatedDomains[i].strategy \in deterministicStrategies
  /\ (inDeepRun /\ brainstormOutcome = "failed" /\ pc \in {"deepLoop", "deepSleep"}) =>
       LET tlds == slices[Len(slices)]
           count == Min(2 * Len(slices[1]), 300)
           fallback ==
             {extractedKeywords[k] \o tlds[t] :
                k \in 1..Min(3, Len(extractedKeywords)),
                t \in 1..Min(count \div 3, Len(tlds))}
       IN /\ {call.domain : call \in scoredNow} = fallback
          /\ \A call \in scoredNow : call.strategy = "fallback-keyword"
          /\ batch = Len(slices)
          /\ totalBatches = Len(slices)
  /\ deepLoopOver => concatAll(slices) = shuffledTlds

\* C7: the request of the second of four batches failed, the fallback
\* candidates of that batch have been scored and some made standouts, and the
\* loop is about to go on with the third batch
C7_Witness ==
  /\ pc = "deepLoop"
  /\ brainstormOutcome = "failed"
  /\ Len(shuffledTlds) = 11
  /\ batchSize = 3
  /\ Len(slices) = 2
  /\ batch = 2
  /\ moreBatches
  /\ \E call \in scoredNow :
       /\ call.strategy = "fallback-keyword"
       /\ \E i \in 1..Len(standouts) : standouts[i].domain = call.domain

(***************************************************************************)
(* Properties of the tool-call handler                                     *)
(***************************************************************************)
\* A tool call is being served, or has just been answered
serving == request.name # "none"

\* The arguments break a limit the tools state: check-domain with both domain
\* and domains, with neither, or with more than 20 domains; maxSuggestions
\* outside 1..50; batchSize outside 10..500; maxBatches outside 1..20
outsideToolBounds(args) ==
  CASE args.name = "check-domain" ->
         \/ args.domain # Absent /\ args.domains # Absent
         \/ args.domain = Absent /\ args.domains = Absent
         \/ args.domains # Absent /\ Len(given(args.domains)) > 20
    [] args.name = "suggest-domains" ->
         /\ args.maxSuggestions # Absent
         /\ given(args.maxSuggestions) \notin 1..50
    [] args.name = "deep-tld" ->
         \/ args.batchSize # Absent /\ given(args.batchSize) \notin 10..500
         \/ args.maxBatches # Absent /\ given(args.maxBatches) \notin 1..20
    [] OTHER -> FALSE

\* No lookup and no text-generation request was made for the call
noProviderCall ==
  /\ pc = "done"
  /\ ~thrown
  /\ brainstormOutcome = "none"
  /\ domainInfos = <<>>
  /\ inflight = {}
  /\ results = <<>>
  /\ slices = <<>>
  /\ generatedDomains = <<>>

\* The handler answered with the error of its catch block
answeredWithError ==
  /\ response.status = "returned"
  /\ response.isError
  /\ response.text \in {"Error generating domain suggestions",
                        "Error checking domain(s)",
                        "Error in deep TLD exploration"}

outsideSchemaBounds(args) ==
  CASE args.name = "check-domain" ->
         \/ truthyString(args.domain) /\ args.domains # Absent
         \/ /\ ~truthyString(args.domain)
            /\ (args.domains = Absent \/ Len(given(args.domains)) = 0)
         \/ args.domains # Absent /\ Len(given(args.domains)) > 20
    [] OTHER -> outsideToolBounds(args)

failsValidation ==
  CASE request.name = "suggest-domains" -> ~SuggestDomainsSchema(request)
    [] request.name = "check-domain" -> ~CheckDomainSchema(request)
    [] request.name = "deep-tld" -> ~DeepTldSchema(request)
    [] OTHER -> FALSE

\* The call being served names a tool the server has
knownTool == request.name \in {"suggest-domains", "check-domain", "deep-tld"}

\* The guards of the steps of a call in progress: the lookup of checkDomain
\* settles, the loop of checkDomainsInBatches starts a batch or ends and its
\* caller resumes, a lookup settles or the batch is collected, a delay
\* elapses, the loop of deepTldExploration runs a batch or ends, the handler
\* formats what the service returned
canStep ==
  \/ pc = "checkDomain"
  \/ /\ pc = "checkLoop"
     /\ \/ batchStart < Len(domainInfos)
        \/ caller \in {"suggestDomains", "checkMultipleDomains", "deepTldExploration"}
  \/ pc \in {"checkInFlight", "checkDelay", "deepLoop", "deepSleep", "done"}

\* C12: the handler never throws to the host; a call that has not been
\* answered yet always has a next step to take; and the answer carries
\* isError exactly when the arguments failed validation, the service threw
\* (a failed lookup of a single-domain check included) or the tool is unknown,
\* with the text of the error and not a result
C12_HandlerAlwaysAnswers ==
  /\ response.status # "threw"
  /\ serving /\ response.status = "none" => canStep
  /\ serving /\ response.status = "returned" =>
       /\ pc = "done"
       /\ response.isError <=> (failsValidation \/ thrown \/ ~knownTool)
       /\ response.isError =>
            response.text \in {"Error generating domain suggestions",
                               "Error checking domain(s)",
                               "Error in deep TLD exploration", "Unknown tool"}

\* The lookup of a single-domain check failed and the handler answered with
\* an error
C12_Witness ==
  /\ request.name = "check-domain"
  /\ truthyString(request.domain)
  /\ ~failsValidation
  /\ thrown
  /\ response.status = "returned"
  /\ response.isError
  /\ response.text = "Error checking domain(s)"

(***************************************************************************)
(* Properties of the availability results                                  *)
(***************************************************************************)
\* What the provider in use reports of a domain: with the status-summary
\* provider the summary is "inactive", with the registrar its available flag
reportedAvailable(domain) ==
  LET status == apiStatus(domain)
  IN /\ Len(status) > 0
     /\ IF providerName = "namecheap" THEN status[1].available
        ELSE status[1].summary = <<"i","n","a","c","t","i","v","e">>

\* With the status-summary provider the status contains "premium", with the
\* registrar its isPremium flag
reportedPremium(domain) ==
  LET status == apiStatus(domain)
  IN /\ Len(status) > 0
     /\ IF providerName = "namecheap" THEN status[1].isPremium
        ELSE includes(status[1].status, <<"p","r","e","m","i","u","m">>)

\* The handler answered a single-domain check with a verdict
singleCheckAnswered ==
  /\ request.name = "check-domain"
  /\ truthyString(request.domain)
  /\ response.status = "returned"
  /\ ~response.isError

\* C13: a checked domain is available exactly when the provider reports it so
\* (summary "inactive", or the registrar's available flag) and premium
\* exactly when the provider reports it so (a status containing "premium", or
\* the registrar's isPremium flag), in the results of checkDomainsInBatches
\* and in the verdict of a single-domain check
C13_AvailabilityNormalised ==
  /\ \A i \in 1..Len(results) :
       i \notin failedLookups =>
         /\ results[i].available = reportedAvailable(results[i].domain)
         /\ results[i].isPremium = reportedPremium(results[i].domain)
  /\ singleCheckAnswered =>
       /\ response.text \in {"AVAILABLE", "PREMIUM"}
            <=> reportedAvailable(given(request.domain))
       /\ response.text \in {"PREMIUM", "PREMIUM (TAKEN)"}
            <=> reportedPremium(given(request.domain))

(***************************************************************************)
(* Properties of the candidate list                                        *)
(***************************************************************************)
\* suggest-domains was called for "artisanal pickle factory" in competitive
\* mode and generateCreativeDomains has returned
competitivePickleList ==
  /\ request.name = "suggest-domains"
  /\ request.businessDescription = DeepDescription
  /\ request.searchMode = {"competitive"}
  /\ caller = "suggestDomains"

\* The candidates of the list tagged direct-keyword
directKeywordCandidates ==
  {generatedDomains[i].domain : i \in
     {j \in 1..Len(generatedDomains) : generatedDomains[j].strategy = "direct-keyword"}}

\* C14: the list returned for "artisanal pickle factory" in competitive mode
\* holds a direct-keyword candidate pickle.<tld> or factory.<tld>, for a TLD
\* of the competitive base set
C14_DirectKeywordIncluded ==
  competitivePickleList =>
    \E domain \in directKeywordCandidates :
      \E t \in 1..Len(baseTldsForMode("competitive")) :
        \/ domain = <<"p","i","c","k","l","e">> \o baseTldsForMode("competitive")[t]
        \/ domain = <<"f","a","c","t","o","r","y">> \o baseTldsForMode("competitive")[t]

\* C14 (amended): every direct-keyword candidate of that list is
\* artisanal.<tld> or pickle.<tld>, one of the first two keywords with one
\* of the first five selected TLDs (never factory.<tld>); the list may hold
\* none of them
C14_DirectKeywordFromFirstTwo ==
  competitivePickleList =>
    /\ checkKeywords = << <<"a","r","t","i","s","a","n","a","l">>,
                          <<"p","i","c","k","l","e">>,
                          <<"f","a","c","t","o","r","y">> >>
    /\ \A domain \in directKeywordCandidates :
         \E k \in 1..2, t \in 1..Min(5, Len(selectedTlds)) :
           domain = checkKeywords[k] \o selectedTlds[t]

\* A list with a direct-keyword candidate of the second keyword
C14_Witness ==
  /\ competitivePickleList
  /\ \E domain \in directKeywordCandidates :
       SubSeq(domain, 1, 7) = <<"p","i","c","k","l","e",".">>

\* suggestDomains has returned its SearchResult
suggestReturned == pc = "done" /\ caller = "suggestDomains"

\* The domains of a list of results
domainsOf(list) == {list[i].domain : i \in 1..Len(list)}

\* C15: the available, taken and premium lists of one SearchResult hold at
\* most maxSuggestions entries in total
C15_TotalWithinMax ==
  suggestReturned =>
    Len(searchResult.available) + Len(searchResult.taken)
      + Len(searchResult.premium) <= maxSuggestions

\* C15 (amended): the three lists name at most maxSuggestions distinct
\* domains and none holds more than maxSuggestions entries; a domain is
\* listed twice exactly when it is available and premium (then in the
\* available and in the premium list), so the entries number at most twice
\* maxSuggestions
C15_DistinctWithinMax ==
  suggestReturned =>
    /\ Cardinality(domainsOf(searchResult.available)
                     \cup domainsOf(searchResult.taken)
                     \cup domainsOf(searchResult.premium)) <= maxSuggestions
    /\ Len(searchResult.available) <= maxSuggestions
    /\ Len(searchResult.taken) <= maxSuggestions
    /\ Len(searchResult.premium) <= maxSuggestions
    /\ domainsOf(searchResult.taken)
         \cap (domainsOf(searchResult.available) \cup domainsOf(searchResult.premium))
         = {}
    /\ \A i \in 1..Len(searchResult.premium) :
         searchResult.premium[i].domain \in domainsOf(searchResult.available)
           <=> searchResult.premium[i].available

\* One suggestion was asked for and the result lists it twice, as available
\* and as premium
C15_Witness ==
  /\ suggestReturned
  /\ maxSuggestions = 1
  /\ Len(searchResult.available) = 1
  /\ Len(searchResult.premium) = 1
  /\ searchResult.available[1].domain = searchResult.premium[1].domain

(***************************************************************************)
(* Properties of the validator                                             *)
(***************************************************************************)
\* The dot-separated labels of a string, read off its characters
labelsOf(str) ==
  LET dots == {i \in 1..Len(str) : str[i] = "."}
      starts == {1} \cup {i + 1 : i \in dots}
      endOf(s) == IF \E d \in dots : d >= s
                  THEN (CHOOSE d \in dots : d >= s /\ \A e \in dots : e >= s => d <= e) - 1
                  ELSE Len(str)
      ordered == CHOOSE f \in [1..Cardinality(starts) -> starts] :
                   \A a, b \in 1..Cardinality(starts) : a < b => f[a] < f[b]
  IN [k \in 1..Cardinality(starts) |-> SubSeq(str, ordered[k], endOf(ordered[k]))]

\* A base label of 2 to 63 letters, digits and hyphens with no leading,
\* trailing or doubled hyphen
wellFormedBase(base) ==
  /\ Len(base) >= 2
  /\ Len(base) <= 63
  /\ \A i \in 1..Len(base) : base[i] \in AlphaNum \cup {"-"}
  /\ base[1] # "-"
  /\ base[Len(base)] # "-"
  /\ \A i \in 1..(Len(base) - 1) : ~(base[i] = "-" /\ base[i + 1] = "-")

\* C16: a string isValidDomain accepts has at least two labels, a well-formed
\* base label and a final label of at least two characters; and a string
\* <base>.<label> with a well-formed base and an alphanumeric final label of
\* at least two characters is accepted
C16_ValidatorAcceptsWellFormed ==
  evaluated.method = "isValidDomain" =>
    LET labels == labelsOf(evaluated.domain)
    IN /\ evaluated.value =>
            /\ Len(labels) >= 2
            /\ wellFormedBase(labels[1])
            /\ Len(labels[Len(labels)]) >= 2
       /\ ( /\ Len(labels) = 2
            /\ wellFormedBase(labels[1])
            /\ Len(labels[2]) >= 2
            /\ \A i \in 1..Len(labels[2]) : labels[2][i] \in AlphaNum )
            => evaluated.value

\* The validator accepted a base label of 63 characters with a hyphen inside
C16_Witness ==
  /\ evaluated.method = "isValidDomain"
  /\ evaluated.value
  /\ Len(labelsOf(evaluated.domain)[1]) = 63
  /\ evaluated.domain[2] = "-"

(***************************************************************************)
(* Properties of the pacing of the requests                                *)
(***************************************************************************)
\* C17: in deepTldExploration the sleep follows a batch exactly when another
\* batch follows it: after the text-generation call of a batch the method
\* sleeps if, and only if, the loop has a further batch to run
C17_SleepIffAnotherBatch ==
  [][ Len(slices') = Len(slices) + 1 /\ ~thrown'
        => (pc' = "deepSleep" <=> moreBatches') ]_vars

\* The most lookups one provider is sent at a time
lookupLimit == IF providerName = "namecheap" THEN 20 ELSE 5

\* C18: within one checkDomainsInBatches run at most one batch of lookups is in
\* flight (at most 20 lookups under namecheap, at most 5 otherwise); lookups
\* start only when none is in flight, and after the first batch only when a
\* delay has elapsed; the delay follows a batch exactly when entries are left
C18_OneBatchInFlight ==
  [][ /\ Cardinality(inflight') <= lookupLimit
      /\ inflight' \subseteq (batchStart' + 1)..(batchStart' + lookupLimit)
      /\ inflight' \ inflight # {} => inflight = {} /\ pc = "checkLoop"
      /\ pc = "checkInFlight" /\ pc' # "checkInFlight"
           => /\ inflight = {}
              /\ pc' = "checkDelay" <=> batchStart' < Len(domainInfos)
              /\ pc' \in {"checkDelay", "checkLoop"}
      /\ pc' = "checkLoop" /\ pc # "checkLoop" /\ batchStart' > 0
           /\ batchStart' < Len(domainInfos)
           => pc = "checkDelay" ]_vars

\* The second batch of a run is in flight: some of its lookups have settled,
\* others have not
C18_Witness ==
  /\ pc = "checkInFlight"
  /\ caller = "checkMultipleDomains"
  /\ batchStart = 5
  /\ Len(results) = 5
  /\ inflight # {}

(***************************************************************************)
(* Properties of llmBrainstormWithTlds                                     *)
(***************************************************************************)
\* The TLD of a domain, written as the catalog writes it
offeredForm(domain) == <<".">> \o lastPart(split(domain, "."))

\* C19: a candidate llmBrainstormWithTlds returns when the text-generation
\* request succeeded is syntactically valid, and its final label is exactly
\* one of the TLDs of the slice the call was given
C19_KeptUsesOfferedTld ==
  [][ Len(slices') = Len(slices) + 1 /\ brainstormOutcome' = "answered"
        => \A call \in scoredNow' :
             /\ isValidDomain(call.domain)
             /\ \E t \in 1..Len(slices'[Len(slices')]) :
                  slices'[Len(slices')][t] = offeredForm(call.domain) ]_vars

(***************************************************************************)
(* Properties of calculateAdvancedScore                                    *)
(***************************************************************************)
\* The position of the first dot of a domain, or one past its end
firstDot(domain) ==
  LET dots == {i \in 1..Len(domain) : domain[i] = "."}
  IN IF dots = {} THEN Len(domain) + 1 ELSE CHOOSE i \in dots : \A j \in dots : i <= j

\* The base label: what stands before the first dot
baseLabel(domain) == SubSeq(domain, 1, firstDot(domain) - 1)

\* The TLD suffix: the first dot and what follows it
tldSuffix(domain) == SubSeq(domain, firstDot(domain), Len(domain))

\* The number of positions of a word that hold a character of a set
countIn(word, chars) == Cardinality({i \in 1..Len(word) : word[i] \in chars})

\* The stated sum, in quarters of a point, before it is clamped and rounded
statedSum(domain, strategy, keywords) ==
  LET base == baseLabel(domain)
      tld == tldSuffix(domain)
      n == Len(base)
      lowered == toLowerCase(base)
      vowels == countIn(lowered, Vowel)
      equalsKeyword == \E k \in Range(keywords) : toLowerCase(k) = lowered
      containsKeyword == \E k \in Range(keywords) : includes(lowered, toLowerCase(k))
      relevant == equalsKeyword \/ containsKeyword
      pronounceable == n > 0 /\ 10 * vowels >= 2 * n /\ 10 * vowels <= 6 * n /\ vowels < n
      digit == countIn(base, Digit) > 0
      hyphen == countIn(base, {"-"}) > 0
      repeated == \E i \in 1..(n - 3) : \A j \in i..(i + 3) : base[j] = base[i]
      weights == [s \in {"word-slicing"} |-> 6] @@ [s \in {"portmanteau", "llm-creative"} |-> 4]
                   @@ [s \in {"creative-combination", "direct-keyword", "creative-prefix"} |-> 2]
                   @@ [s \in {"vowel-removal"} |-> 0] @@ [s \in {"number-substitution"} |-> -4]
      tldTerms == [s \in {<<".","c","o","m">>} |-> 8]
                    @@ [s \in {<<".","i","o">>, <<".","a","i">>} |-> 6]
                    @@ [s \in {<<".","a","p","p">>, <<".","d","e","v">>, <<".","c","o">>} |-> 4]
                    @@ [s \in {<<".","n","e","t">>, <<".","o","r","g">>} |-> 2]
  IN 12
     + (IF n \in 4..8 THEN 8 ELSE IF n \in 3..12 THEN 4 ELSE -4)
     + (IF strategy \in DOMAIN weights THEN weights[strategy] ELSE 0)
     + (IF tld \in DOMAIN tldTerms THEN tldTerms[tld] ELSE 0)
     + (IF equalsKeyword THEN 6 ELSE IF containsKeyword THEN 2 ELSE -2)
     + (IF pronounceable THEN 4 ELSE -4)
     - (IF digit THEN 6 ELSE 0)
     - (IF hyphen THEN 8 ELSE 0)
     - (IF n <= 2 THEN 8 ELSE 0)
     - (IF n >= 15 THEN 4 ELSE 0)
     - (IF repeated THEN 4 ELSE 0)
     - (IF vowels = 0 THEN 6 ELSE 0)
     + (IF /\ n \in 4..7
           /\ pronounceable
           /\ relevant
           /\ tld \in {<<".","c","o","m">>, <<".","i","o">>, <<".","a","i">>}
           /\ ~digit /\ ~hyphen
        THEN 4 ELSE 0)

\* The stated sum clamped to [1, 10] and then rounded to the nearest half, a
\* tie upwards
statedScore(domain, strategy, keywords) ==
  LET sum == statedSum(domain, strategy, keywords)
      clamped == IF sum < 4 THEN 4 ELSE IF sum > 40 THEN 40 ELSE sum
  IN 2 * (CHOOSE h \in 2..20 : clamped \in {2 * h - 1, 2 * h})

\* C20: for every domain, strategy and keyword list calculateAdvancedScore is
\* the stated sum (3.0, the length term, the strategy weight, the TLD term,
\* the relevance term, one point for or against pronounceability, the
\* penalties, the bonus) clamped to [1, 10] and then rounded to a half
C20_ScoreIsStatedFormula ==
  evaluated.method = "calculateAdvancedScore"
    => evaluated.value = statedScore(evaluated.domain, evaluated.strategy,
                                     evaluated.keywords)

\* The score of pickle.ai, sliced from the keyword pickle, was evaluated: every
\* reward and the bonus apply, the sum is 11.5 and the score is 10
C20_Witness ==
  /\ evaluated.method = "calculateAdvancedScore"
  /\ evaluated.domain = <<"p","i","c","k","l","e",".","a","i">>
  /\ evaluated.strategy = "word-slicing"
  /\ evaluated.keywords = << <<"p","i","c","k","l","e">> >>
  /\ statedSum(evaluated.domain, evaluated.strategy, evaluated.keywords) = 46
  /\ evaluated.value = Half(20)

\* The domain ab.com was scored
scoredAbCom ==
  /\ evaluated.method = "calculateAdvancedScore"
  /\ evaluated.domain = <<"a","b",".","c","o","m">>

\* The terms of the score of ab.com that do not depend on its length: 3.0, the
\* strategy weight, 2 for .com, the relevance of a base that equals no keyword
\* and contains only the empty one, and 1 for a pronounceable base
otherTermsOfAbCom ==
  Half(6) + strategyScore(evaluated.strategy) + Half(4)
    + (IF \E k \in Range(evaluated.keywords) : Len(k) = 0 THEN Half(1) ELSE 0 - Half(1))
    + Half(2)

\* The sum of an evaluation was below 1 and the score returned is 1
flooredAtOne ==
  rawScore(evaluated.domain, evaluated.strategy, evaluated.keywords) < Half(2)
    => evaluated.value = Half(2)

\* C21: scoring ab.com applies a length penalty of 2 points and the 2-point
\* penalty of a base of at most two characters on top of the other terms, and
\* a sum below 1 is returned as the floor value 1
C21_ShortBaseTwoOff ==
  /\ scoredAbCom
       => evaluated.value
            = roundToHalf(clampScore(otherTermsOfAbCom - Half(4) - Half(4)))
  /\ evaluated.method = "calculateAdvancedScore" => flooredAtOne

\* C21, with the length term the method applies: scoring ab.com takes 1 point
\* off for the length of the base and 2 more for a base of at most two
\* characters, the sum is clamped and then rounded, and a sum below 1 is
\* returned as the floor value 1
C21_ShortBaseOneOff ==
  /\ scoredAbCom
       => evaluated.value
            = roundToHalf(clampScore(otherTermsOfAbCom - Half(2) - Half(4)))
  /\ evaluated.method = "calculateAdvancedScore" => flooredAtOne

\* ab.com was scored under the strategy with the lowest weight and with no
\* keyword: its sum is 1.5, the lowest ab.com can get, and the floor is not
\* needed
C21_Witness ==
  /\ scoredAbCom
  /\ evaluated.strategy = "number-substitution"
  /\ evaluated.keywords = <<>>
  /\ evaluated.value = Half(3)

(***************************************************************************)
(* Properties of the standouts of deepTldExploration                       *)
(***************************************************************************)
\* The scores of a list do not increase along it
scoresDescend(list) ==
  \A i \in 1..(Len(list) - 1) : list[i].score >= list[i + 1].score

\* How often an entry occurs in a list
timesIn(entry, list) == Cardinality({i \in 1..Len(list) : list[i] = entry})

\* kept holds entries of all, each no more often than all does, and every
\* entry it leaves out scores no more than the entries it holds
bestOf(kept, all) ==
  /\ \A i \in 1..Len(kept) : timesIn(kept[i], kept) <= timesIn(kept[i], all)
  /\ \A i \in 1..Len(all) :
       timesIn(all[i], kept) < timesIn(all[i], all)
         => \A j \in 1..Len(kept) : kept[j].score >= all[i].score

\* The standouts a batch has just contributed
contributed == SubSeq(standouts', Len(standouts) + 1, Len(standouts'))

\* The combinations of the batch just scored that score 6 or more
highScorers ==
  {[domain |-> call.domain, score |-> call.score] :
     call \in {c \in scoredNow' : c.score >= Half(12)}}

\* C22: every standout scores 6 or more; a batch contributes at most 10
\* standouts, the 10 highest-scoring of its combinations; the list returned is
\* sorted by score, the best first, and holds at most 30 entries, the 30
\* highest-scoring of the standouts collected
C22_StandoutsRanked ==
  [][ /\ \A i \in 1..Len(standouts') : standouts'[i].score >= Half(12)
      /\ Len(slices') = Len(slices) + 1
           => /\ Len(contributed) <= 10
              /\ scoresDescend(contributed)
              /\ Range(contributed) \subseteq highScorers
              /\ Len(contributed) < 10 => highScorers \subseteq Range(contributed)
              /\ \A scorer \in highScorers \ Range(contributed) :
                   \A j \in 1..Len(contributed) : contributed[j].score >= scorer.score
      /\ pc = "deepLoop" /\ pc' \in {"done", "checkLoop"}
           => /\ Len(standouts') = Min(30, Len(standouts))
              /\ scoresDescend(standouts')
              /\ bestOf(standouts', standouts) ]_vars

\* A run has returned 30 standouts of scores from 10 down to 7, after four
\* batches that contributed 10 standouts each
C22_Witness ==
  /\ pc = "done"
  /\ Len(slices) = 4
  /\ Len(standouts) = 30
  /\ standouts[1].score = Half(20)
  /\ standouts[30].score = Half(14)

(***************************************************************************)
(* Properties of the availability check of deepTldExploration              *)
(***************************************************************************)
\* The domains of a list of records, in its order
namesOf(list) == [i \in 1..Len(list) |-> list[i].domain]

\* The standouts whose lookup was answered and reported the domain available,
\* in the order of the standouts
standoutsReportedAvailable ==
  LET positions == SelectSeq([i \in 1..Len(standouts) |-> i],
                             LAMBDA i : /\ i \notin failedLookups
                                        /\ reportedAvailable(standouts[i].domain))
  IN [j \in 1..Len(positions) |-> standouts[positions[j]].domain]

\* C23: in deepTldExploration no availability lookup is made and the available
\* list is empty when checkAvailability is false; when it is true the check
\* runs once, over the ranked (at most 30) standouts and nothing else, and the
\* available list holds exactly the standouts reported available, the premium
\* ones among them
C23_AvailabilityOnlyOnRequest ==
  [][ /\ inDeepRun' /\ ~checkAvailability'
           => /\ available' = <<>>
              /\ inflight' = {}
              /\ pc' \notin {"checkLoop", "checkInFlight", "checkDelay"}
      /\ caller = "deepTldExploration" /\ pc' # "idle" => domainInfos' = domainInfos
      /\ inDeepRun /\ pc = "deepLoop" /\ pc' = "checkLoop"
           => /\ checkAvailability
              /\ namesOf(domainInfos') = namesOf(standouts')
              /\ Len(domainInfos') <= 30
      /\ caller = "deepTldExploration" /\ pc = "checkLoop" /\ pc' = "done"
           => /\ namesOf(available') = standoutsReportedAvailable
              /\ \A i \in 1..Len(available') :
                   available'[i].isPremium = reportedPremium(available'[i].domain) ]_vars

\* A run with checkAvailability has returned: a premium standout is in the
\* available list, and a standout that was not reported available is not
C23_Witness ==
  /\ pc = "done"
  /\ caller = "deepTldExploration"
  /\ checkAvailability
  /\ \E i \in 1..Len(available) : available[i].isPremium
  /\ Len(available) < Len(standouts)
  /\ failedLookups = {}

(***************************************************************************)
(* Properties of selectTldsForMode                                         *)
(***************************************************************************)
\* selectTldsForMode was evaluated
selected == evaluated.method = "selectTldsForMode"

\* C24: for every mode and keyword list selectTldsForMode returns a list with
\* no TLD twice and at most 50 entries, taken from the base list of the mode
\* and the industry TLDs of the keywords and cut to 50 after the duplicates
\* are dropped; every TLD of the base list stands before every TLD that only
\* the industry inference added; and a mode that is none of competitive,
\* premium, budget and international gives the list of standard
C24_SelectedTldsOrdered ==
  selected =>
    LET chosen == evaluated.value
        base == Range(baseTldsForMode(evaluated.mode))
        industry == Range(getIndustrySpecificTlds(evaluated.keywords))
    IN /\ \A i, j \in 1..Len(chosen) : i # j => chosen[i] # chosen[j]
       /\ Len(chosen) <= 50
       /\ Range(chosen) \subseteq base \cup industry
       /\ Len(chosen) = Min(50, Cardinality(base \cup industry))
       /\ \A i, j \in 1..Len(chosen) :
            chosen[i] \in base /\ chosen[j] \notin base => i < j
       /\ evaluated.mode \notin {"competitive", "premium", "budget", "international"}
            => chosen = selectTldsForMode("standard", evaluated.keywords)

\* The competitive mode was evaluated over the rich catalog with keywords of
\* two industries: the base list fills the 50 entries, a TLD listed twice in
\* it is kept once, and no TLD of the finance industry is left
C24_Witness ==
  /\ selected
  /\ evaluated.mode = "competitive"
  /\ allTlds = richCatalog
  /\ Len(evaluated.value) = 50
  /\ Len(baseTldsForMode("competitive")) = 51
  /\ <<".","b","a","n","k">> \in Range(getIndustrySpecificTlds(evaluated.keywords))
  /\ <<".","b","a","n","k">> \notin Range(evaluated.value)

(***************************************************************************)
(* Properties of extractKeywords                                           *)
(***************************************************************************)
\* The description in lower case with every character deleted that is neither
\* a letter nor white space
lettersAndSpaces(description) ==
  SelectSeq(toLowerCase(description), LAMBDA c : c \in Lower \/ c \in WhiteSpace)

\* The tokens of a text: its longest stretches free of white space, in order
tokensOf(text) ==
  LET free(i) == i >= 1 /\ i <= Len(text) /\ text[i] \notin WhiteSpace
      starts == SelectSeq([i \in 1..Len(text) |-> i],
                          LAMBDA i : free(i) /\ ~free(i - 1))
      endOf(s) == CHOOSE e \in s..Len(text) :
                    (\A i \in s..e : free(i)) /\ ~free(e + 1)
  IN [k \in 1..Len(starts) |-> SubSeq(text, starts[k], endOf(starts[k]))]

\* The 17 stop words
stopWordSet ==
  { <<"t","h","e">>, <<"a","n","d">>, <<"f","o","r">>, <<"a","r","e">>,
    <<"b","u","t">>, <<"n","o","t">>, <<"y","o","u">>, <<"a","l","l">>,
    <<"c","a","n">>, <<"h","e","r">>, <<"w","a","s">>, <<"o","n","e">>,
    <<"o","u","r">>, <<"h","a","d">>, <<"h","a","v","e">>, <<"w","h","a","t">>,
    <<"w","e","r","e">> }

\* C25: extractKeywords returns, in the order of the description and with
\* repeats kept, exactly the tokens of the lowercased description with the
\* characters that are no letters deleted, that are longer than 2 and are no
\* stop words; every token returned is of lowercase letters; an empty
\* description and one of stop words only give the empty list
C25_KeywordsAreFilteredTokens ==
  evaluated.method = "extractKeywords" =>
    LET tokens == tokensOf(lettersAndSpaces(evaluated.description))
    IN /\ evaluated.value
            = SelectSeq(tokens, LAMBDA w : Len(w) > 2 /\ w \notin stopWordSet)
       /\ \A i \in 1..Len(evaluated.value) :
            \A c \in Range(evaluated.value[i]) : c \in Lower
       /\ (\A w \in Range(tokens) : w \in stopWordSet) => evaluated.value = <<>>

\* The keywords of "the pickle the pickle" were extracted: the stop word is
\* gone and the repeated word is returned twice
C25_Witness ==
  /\ evaluated.method = "extractKeywords"
  /\ Len(evaluated.description) = 21
  /\ evaluated.value = << <<"p","i","c","k","l","e">>, <<"p","i","c","k","l","e">> >>

C27_ResultsInInputOrder ==
  [][ pc = "checkInFlight" /\ pc' # "checkInFlight"
        => LET size == Min(lookupLimit, Len(domainInfos) - batchStart)
           IN /\ Len(results') = Len(results) + size
              /\ \A j \in 1..size :
                   results'[Len(results) + j] = settled[batchStart + j].value
              /\ namesOf(results') = SubSeq(namesOf(domainInfos), 1, Len(results')) ]_vars

\* A check of six different domains has returned: the lookups of the first and
\* of the last domain failed, and the six results name the six domains in the
\* order given
C27_Witness ==
  /\ pc = "done"
  /\ caller = "checkMultipleDomains"
  /\ failedLookups = {1, 6}
  /\ Len(results) = 6
  /\ namesOf(results) = namesOf(domainInfos)
  /\ \A i, j \in 1..6 : i # j => results[i].domain # results[j].domain

(***************************************************************************)
(* Properties of the domains of the standouts                              *)
(***************************************************************************)
\* C28: the standouts of a run of deepTldExploration never hold the same
\* domain twice, also when the text-generation API repeats a line within a
\* batch or answers two batches with the same domain
C28_StandoutsDistinct ==
  inDeepRun =>
    \A i, j \in 1..Len(standouts) :
      i # j => standouts[i].domain # standouts[j].domain

\* A run of deepTldExploration with the availability check has returned
deepCheckReturned ==
  pc = "done" /\ caller = "deepTldExploration" /\ checkAvailability

\* C29: in a run of deepTldExploration with checkAvailability every domain of
\* the available list carries the score of its entry in the standouts, though
\* the availability check scores it again under the strategy llm-brainstorm
\* and not under the strategy that generated it
C29_RecheckKeepsScore ==
  deepCheckReturned =>
    \A i \in 1..Len(available) :
      /\ available[i].strategy = "llm-brainstorm"
      /\ \E j \in 1..Len(standouts) : standouts[j].domain = available[i].domain
      /\ \A j \in 1..Len(standouts) :
           standouts[j].domain = available[i].domain
             => standouts[j].score = available[i].score

\* A run has returned an available domain, a standout of score 6 or more that
\* the availability check scored again under llm-brainstorm
C29_Witness ==
  /\ deepCheckReturned
  /\ Len(available) > 0
  /\ brainstormOutcome \in {"answered", "failed"}
  /\ \E i \in 1..Len(available) : available[i].score >= Half(12)

(***************************************************************************)
(* Properties of the creativity score                                      *)
(***************************************************************************)
\* C30: the creativityScore of every SearchResult suggestDomains returns is a
\* defined number between 0 and 10, also when no candidate was generated or
\* checked and the ranked results are empty
C30_CreativityScoreDefined ==
  suggestReturned =>
    /\ ~searchResult.creativityScore.nan
    /\ searchResult.creativityScore.num >= 0
    /\ searchResult.creativityScore.num <= 10 * searchResult.creativityScore.den

====
